---- MODULE Spec2Model ----
(***************************************************************************)
(* The flashcard application of src/src/main.rs: the FlashMemory word      *)
(* store (groups -> word tables -> words), the FlashMemoryApp frame handler *)
(* (selection, renaming, context menus, the table editor, the study        *)
(* session) and the words.json snapshot.                                    *)
(*                                                                          *)
(* Strings that the code inspects (names, edited text) are sequences of     *)
(* one-character strings; messages and results, which the code only passes  *)
(* on, are plain strings.  Durations are counted in half seconds, which f32 *)
(* represents exactly.                                                      *)
(***************************************************************************)
EXTENDS Integers, Sequences, FiniteSets, TLC

\* ------------------------------------------------------------------ bounds
\* The most word tables the store holds at once (no table is created above).
MaxTables == 3

\* The most groups the "+" of the side panel creates.
MaxGroups == 2

\* The most saves that fail in a run.
MaxIoFaults == 1

\* The most frames of a run of SpecEdit and of SpecScript.
MaxFrames == 9

\* The most words of a table of the words.json SpecStudy and SpecScript start
\* with.
MaxWords == 3

VARIABLES
    flash_memory,
    current_group,
    current_word_table,
    message,
    message_timer,
    renaming_group_active,
    renaming_input,
    renaming_word_table_active,
    renaming_word_table_input,
    context_menu_group,
    show_context_menu,
    context_menu_word_table,
    show_word_table_context_menu,
    editing_word_table,
    word_table_content,
    flash_mode,
    current_page,
    flash_index,
    flash_timer,
    countdown_remaining,
    countdown_timer,
    since_tick,
    words_json,
    panicked,
    last_click,
    io_faults,
    event,
    save_result,
    store_result,
    shown,
    polls,
    frames,
    prev,
    call,
    before,
    deleted

\* flash_memory: FlashMemoryApp.flash_memory: the word store
\* current_group: Option<String>
\* current_word_table: Option<String>
\* message: the message shown; <<>> when there is none
\* message_timer: half seconds the message has left
\* renaming_group_active: bool
\* renaming_input: String
\* renaming_word_table_active: bool
\* renaming_word_table_input: String
\* context_menu_group: Option<String>
\* show_context_menu: bool
\* context_menu_word_table: Option<(String, String)>
\* show_word_table_context_menu: bool
\* editing_word_table: Option<(String, String)>
\* word_table_content: String
\* flash_mode: "Preview", "Started" or "Paused"
\* current_page: usize
\* flash_index: usize
\* flash_timer: half seconds of the current word
\* countdown_remaining: i32
\* countdown_timer: half seconds of the current countdown second
\* since_tick: now - last_tick in half seconds, counted up to WordPeriod, and
\*     only outside Preview (a start writes last_tick before any read of it)
\* words_json: the file words.json: None, or Some(its tokens)
\* panicked: the process has panicked
\* last_click: the label the last frame clicked (for a double click)
\* io_faults: how many saves have failed
\* event: the input of the last frame
\* save_result: the last frame: "none", or "ok" / "failed" of its save
\* store_result: the last frame: "none", or the result of its FlashMemory call
\* shown: the last frame: what the central panel showed
\* frames: the number of frames so far where a run is of MaxFrames frames at
\*   most; else FramesOff
\* polls: where frames are counted, the times d of the frames without input
\*   since the last click on start, while no other input has come; else PollsOff
\* prev: where frames are looked at one by one: the store, the selection, the
\*   message, the editor, the fields of the session and now - last_tick as the
\*   last frame found them (its time d not yet counted), and dt, the time its poll
\*   measured (NoPoll when it did not poll); else PrevOff
\* call: SpecStore: the last FlashMemory method called, with its result
\* before: SpecStore: flash_memory as it was when that method was called
\* deleted: SpecStore: the groups delete_group has removed and that have not
\*   come back since

vars ==
    <<flash_memory, current_group, current_word_table, message,
      message_timer, renaming_group_active, renaming_input, renaming_word_table_active,
      renaming_word_table_input, context_menu_group, show_context_menu, context_menu_word_table,
      show_word_table_context_menu, editing_word_table, word_table_content, flash_mode,
      current_page, flash_index, flash_timer, countdown_remaining,
      countdown_timer, since_tick, words_json, panicked,
      last_click, io_faults, event, save_result,
      store_result, shown, polls, frames, prev,
      call, before, deleted>>

hist == <<call, before, deleted>>

\* the state as the record the handlers work on
Self ==
    [flash_memory |-> flash_memory,
     current_group |-> current_group,
     current_word_table |-> current_word_table,
     message |-> message,
     message_timer |-> message_timer,
     renaming_group_active |-> renaming_group_active,
     renaming_input |-> renaming_input,
     renaming_word_table_active |-> renaming_word_table_active,
     renaming_word_table_input |-> renaming_word_table_input,
     context_menu_group |-> context_menu_group,
     show_context_menu |-> show_context_menu,
     context_menu_word_table |-> context_menu_word_table,
     show_word_table_context_menu |-> show_word_table_context_menu,
     editing_word_table |-> editing_word_table,
     word_table_content |-> word_table_content,
     flash_mode |-> flash_mode,
     current_page |-> current_page,
     flash_index |-> flash_index,
     flash_timer |-> flash_timer,
     countdown_remaining |-> countdown_remaining,
     countdown_timer |-> countdown_timer,
     since_tick |-> since_tick,
     words_json |-> words_json,
     panicked |-> panicked,
     last_click |-> last_click,
     io_faults |-> io_faults,
     event |-> event,
     save_result |-> save_result,
     store_result |-> store_result,
     shown |-> shown,
     polls |-> polls,
     frames |-> frames,
     prev |-> prev]

\* the state after a frame that ended with the record s
Commit(s) ==
    \E r \in {s} :
        /\ flash_memory' = r.flash_memory
        /\ current_group' = r.current_group
        /\ current_word_table' = r.current_word_table
        /\ message' = r.message
        /\ message_timer' = r.message_timer
        /\ renaming_group_active' = r.renaming_group_active
        /\ renaming_input' = r.renaming_input
        /\ renaming_word_table_active' = r.renaming_word_table_active
        /\ renaming_word_table_input' = r.renaming_word_table_input
        /\ context_menu_group' = r.context_menu_group
        /\ show_context_menu' = r.show_context_menu
        /\ context_menu_word_table' = r.context_menu_word_table
        /\ show_word_table_context_menu' = r.show_word_table_context_menu
        /\ editing_word_table' = r.editing_word_table
        /\ word_table_content' = r.word_table_content
        /\ flash_mode' = r.flash_mode
        /\ current_page' = r.current_page
        /\ flash_index' = r.flash_index
        /\ flash_timer' = r.flash_timer
        /\ countdown_remaining' = r.countdown_remaining
        /\ countdown_timer' = r.countdown_timer
        /\ since_tick' = r.since_tick
        /\ words_json' = r.words_json
        /\ panicked' = r.panicked
        /\ last_click' = r.last_click
        /\ io_faults' = r.io_faults
        /\ event' = r.event
        /\ save_result' = r.save_result
        /\ store_result' = r.store_result
        /\ shown' = r.shown
        /\ polls' = r.polls
        /\ frames' = r.frames
        /\ prev' = r.prev
        /\ UNCHANGED hist

\* ----------------------------------------------------------------- strings
Digits == <<"0", "1", "2", "3", "4", "5", "6", "7", "8", "9">>

\* format!("{}", n) of a non-negative integer
RECURSIVE ToDec(_)
ToDec(n) ==
    IF n < 10 THEN <<Digits[n + 1]>> ELSE ToDec(n \div 10) \o <<Digits[(n % 10) + 1]>>

\* format!("{}{}", base, idx)
FormatNameIdx(base, idx) == base \o ToDec(idx)

\* let x = v; F(x)
With(v, F(_)) == CHOOSE r \in {F(x) : x \in {v}} : TRUE

\* Option<T>: None is the empty sequence, Some(x) the one-element sequence
None == <<>>

Some(x) == <<x>>

IsSome(o) == Len(o) = 1

Unwrap(o) == o[1]

\* ------------------------------------------------------------- FlashMemory
\* Result<(), &'static str> is "Ok" or the error, whose text the model names:
\*   ErrGroupNameExists  Err("分组名已存在")     ErrOldGroupMissing  Err("原分组不存在")
\*   ErrTableNameExists  Err("单词表名已存在")   ErrTableMissing     Err("单词表不存在")
\*   ErrGroupMissing     Err("分组不存在")
NewFlashMemory == [groups |-> <<>>]

HasGroup(fm, group) == group \in DOMAIN fm.groups

\* HashMap::insert
MapInsert(m, k, v) == [x \in (DOMAIN m) \cup {k} |-> IF x = k THEN v ELSE m[x]]

\* HashMap::remove
MapRemove(m, k) == [x \in (DOMAIN m) \ {k} |-> m[x]]

\* tables.iter().any(|t| t.name == name)
AnyNamed(tables, name) == \E i \in DOMAIN tables : tables[i].name = name

\* tables.iter().position(|t| t.name == name), for a name that is present
Position(tables, name) ==
    CHOOSE i \in DOMAIN tables :
        /\ tables[i].name = name
        /\ \A j \in 1..(i - 1) : tables[j].name # name

\* Vec::remove(pos)
VecRemove(v, pos) == SubSeq(v, 1, pos - 1) \o SubSeq(v, pos + 1, Len(v))

create_group_if_absent(fm, group) ==
    IF HasGroup(fm, group) THEN fm
    ELSE [fm EXCEPT !.groups = MapInsert(@, group, <<>>)]

\* the while loop of create_word_table: the first unused name among
\* table_name, table_name2, table_name3, ...
RECURSIVE UnusedName(_, _, _, _)
UnusedName(tables, table_name, idx, name) ==
    IF AnyNamed(tables, name)
    THEN UnusedName(tables, table_name, idx + 1, FormatNameIdx(table_name, idx + 1))
    ELSE name

\* create_word_table whose idx starts at 0: the first suffix tried is 1
create_word_table_from_zero(fm, group, table_name) ==
    LET fm1 == create_group_if_absent(fm, group)
        tables == fm1.groups[group]
        name == UnusedName(tables, table_name, 0, table_name)
    IN [fm1 EXCEPT !.groups[group] = Append(tables, [name |-> name, words |-> <<>>])]

create_word_table(fm, group, table_name) ==
    LET fm1 == create_group_if_absent(fm, group)
        tables == fm1.groups[group]
        name == UnusedName(tables, table_name, 1, table_name)
    IN [fm1 EXCEPT !.groups[group] = Append(tables, [name |-> name, words |-> <<>>])]

\* rename_group without the check of contains_key(new): insert overwrites
rename_group_overwriting(fm, old, new) ==
    IF old = new THEN [fm |-> fm, res |-> "Ok"]
    ELSE IF HasGroup(fm, old)
         THEN [fm |-> [fm EXCEPT !.groups = MapInsert(MapRemove(@, old), new, fm.groups[old])],
               res |-> "Ok"]
         ELSE [fm |-> fm, res |-> "ErrOldGroupMissing"]

\* rename_group that inserts under new and does not remove old
rename_group_copying(fm, old, new) ==
    IF old = new THEN [fm |-> fm, res |-> "Ok"]
    ELSE IF HasGroup(fm, new) THEN [fm |-> fm, res |-> "ErrGroupNameExists"]
    ELSE IF HasGroup(fm, old)
         THEN [fm |-> [fm EXCEPT !.groups = MapInsert(@, new, fm.groups[old])],
               res |-> "Ok"]
         ELSE [fm |-> fm, res |-> "ErrOldGroupMissing"]

rename_group(fm, old, new) ==
    IF old = new THEN [fm |-> fm, res |-> "Ok"]
    ELSE IF HasGroup(fm, new) THEN [fm |-> fm, res |-> "ErrGroupNameExists"]
    ELSE IF HasGroup(fm, old)
         THEN [fm |-> [fm EXCEPT !.groups = MapInsert(MapRemove(@, old), new, fm.groups[old])],
               res |-> "Ok"]
         ELSE [fm |-> fm, res |-> "ErrOldGroupMissing"]

\* rename_word_table without the check that new_name is unused
rename_word_table_unchecked(fm, group, old_name, new_name) ==
    IF old_name = new_name THEN [fm |-> fm, res |-> "Ok"]
    ELSE IF HasGroup(fm, group)
         THEN LET tables == fm.groups[group] IN
              IF AnyNamed(tables, old_name)
              THEN [fm |-> [fm EXCEPT !.groups[group][Position(tables, old_name)].name = new_name],
                    res |-> "Ok"]
              ELSE [fm |-> fm, res |-> "ErrTableMissing"]
         ELSE [fm |-> fm, res |-> "ErrGroupMissing"]

\* rename_word_table without the early return for old_name == new_name
rename_word_table_no_early_return(fm, group, old_name, new_name) ==
    IF HasGroup(fm, group)
    THEN LET tables == fm.groups[group] IN
         IF AnyNamed(tables, new_name) THEN [fm |-> fm, res |-> "ErrTableNameExists"]
         ELSE IF AnyNamed(tables, old_name)
              THEN [fm |-> [fm EXCEPT !.groups[group][Position(tables, old_name)].name = new_name],
                    res |-> "Ok"]
              ELSE [fm |-> fm, res |-> "ErrTableMissing"]
    ELSE [fm |-> fm, res |-> "ErrGroupMissing"]

rename_word_table(fm, group, old_name, new_name) ==
    IF old_name = new_name THEN [fm |-> fm, res |-> "Ok"]
    ELSE IF HasGroup(fm, group)
         THEN LET tables == fm.groups[group] IN
              IF AnyNamed(tables, new_name) THEN [fm |-> fm, res |-> "ErrTableNameExists"]
              ELSE IF AnyNamed(tables, old_name)
                   THEN [fm |-> [fm EXCEPT !.groups[group][Position(tables, old_name)].name = new_name],
                         res |-> "Ok"]
                   ELSE [fm |-> fm, res |-> "ErrTableMissing"]
         ELSE [fm |-> fm, res |-> "ErrGroupMissing"]

\* delete_group that empties the group instead of removing its key
delete_group_clearing(fm, group) ==
    IF HasGroup(fm, group)
    THEN [fm |-> [fm EXCEPT !.groups[group] = <<>>], res |-> "Ok"]
    ELSE [fm |-> fm, res |-> "ErrGroupMissing"]

delete_group(fm, group) ==
    IF HasGroup(fm, group)
    THEN [fm |-> [fm EXCEPT !.groups = MapRemove(@, group)], res |-> "Ok"]
    ELSE [fm |-> fm, res |-> "ErrGroupMissing"]

\* delete_word_table that removes the table with Vec::swap_remove: the last
\* table takes the place of the removed one
delete_word_table_swapping(fm, group, table_name) ==
    IF HasGroup(fm, group)
    THEN LET tables == fm.groups[group] IN
         IF AnyNamed(tables, table_name)
         THEN [fm |-> [fm EXCEPT !.groups[group] =
                           LET pos == Position(tables, table_name) IN
                           [i \in 1..(Len(tables) - 1) |->
                               IF i = pos THEN tables[Len(tables)] ELSE tables[i]]],
               res |-> "Ok"]
         ELSE [fm |-> fm, res |-> "ErrTableMissing"]
    ELSE [fm |-> fm, res |-> "ErrGroupMissing"]

delete_word_table(fm, group, table_name) ==
    IF HasGroup(fm, group)
    THEN LET tables == fm.groups[group] IN
         IF AnyNamed(tables, table_name)
         THEN [fm |-> [fm EXCEPT !.groups[group] = VecRemove(tables, Position(tables, table_name))],
               res |-> "Ok"]
         ELSE [fm |-> fm, res |-> "ErrTableMissing"]
    ELSE [fm |-> fm, res |-> "ErrGroupMissing"]

get_groups(fm) == DOMAIN fm.groups

\* the number of word tables of all groups
RECURSIVE TableCountOf(_, _)
TableCountOf(fm, S) ==
    IF S = {} THEN 0
    ELSE LET g == CHOOSE x \in S : TRUE IN Len(fm.groups[g]) + TableCountOf(fm, S \ {g})

TableCount(fm) == TableCountOf(fm, DOMAIN fm.groups)

get_word_tables_in_group(fm, group) ==
    IF HasGroup(fm, group) THEN Some(fm.groups[group]) ELSE None

\* add_words_to_table that pushes the missing table before it reports it
add_words_to_table_pushing(fm, group, table_name, words) ==
    IF HasGroup(fm, group)
    THEN LET tables == fm.groups[group] IN
         IF AnyNamed(tables, table_name)
         THEN [fm |-> [fm EXCEPT !.groups[group][Position(tables, table_name)].words = words],
               res |-> "Ok"]
         ELSE [fm |-> [fm EXCEPT !.groups[group] =
                           Append(tables, [name |-> table_name, words |-> words])],
               res |-> "ErrTableMissing"]
    ELSE [fm |-> fm, res |-> "ErrGroupMissing"]

\* add_words_to_table that appends the words to those of the table
add_words_to_table_appending(fm, group, table_name, words) ==
    IF HasGroup(fm, group)
    THEN LET tables == fm.groups[group] IN
         IF AnyNamed(tables, table_name)
         THEN [fm |-> [fm EXCEPT !.groups[group][Position(tables, table_name)].words =
                           @ \o words],
               res |-> "Ok"]
         ELSE [fm |-> fm, res |-> "ErrTableMissing"]
    ELSE [fm |-> fm, res |-> "ErrGroupMissing"]

add_words_to_table(fm, group, table_name, words) ==
    IF HasGroup(fm, group)
    THEN LET tables == fm.groups[group] IN
         IF AnyNamed(tables, table_name)
         THEN [fm |-> [fm EXCEPT !.groups[group][Position(tables, table_name)].words = words],
               res |-> "Ok"]
         ELSE [fm |-> fm, res |-> "ErrTableMissing"]
    ELSE [fm |-> fm, res |-> "ErrGroupMissing"]


\* ------------------------------------------------------------ str methods
\* char::is_whitespace, on the characters the model uses
Whitespace == {" ", "\t", "\n", "\r"}

RECURSIVE TrimStart(_)
TrimStart(str) ==
    IF str # <<>> /\ Head(str) \in Whitespace THEN TrimStart(Tail(str)) ELSE str

RECURSIVE TrimEnd(_)
TrimEnd(str) ==
    IF str # <<>> /\ str[Len(str)] \in Whitespace
    THEN TrimEnd(SubSeq(str, 1, Len(str) - 1))
    ELSE str

\* str::trim
Trim(str) == TrimEnd(TrimStart(str))

\* str::find(c): the index of the first c, counted from 1; 0 stands for None
Find(str, c) ==
    IF \E i \in DOMAIN str : str[i] = c
    THEN CHOOSE i \in DOMAIN str : str[i] = c /\ \A j \in 1..(i - 1) : str[j] # c
    ELSE 0

\* a line of str::lines loses the "\r" of a "\r\n" ending
StripCR(line) ==
    IF line # <<>> /\ line[Len(line)] = "\r" THEN SubSeq(line, 1, Len(line) - 1) ELSE line

\* the indices of lo..hi at which text has a "\n", in their order (found by
\* halves, so that a long text is not a deep recursion)
RECURSIVE LineEnds(_, _, _)
LineEnds(text, lo, hi) ==
    IF lo > hi THEN <<>>
    ELSE IF lo = hi THEN (IF text[lo] = "\n" THEN <<lo>> ELSE <<>>)
    ELSE LineEnds(text, lo, (lo + hi) \div 2) \o LineEnds(text, (lo + hi) \div 2 + 1, hi)

\* the lines that end at ends, and the rest of t behind the last of them
LinesAt(t, ends) ==
    [k \in 1..Len(ends) |->
        StripCR(SubSeq(t, (IF k = 1 THEN 1 ELSE ends[k - 1] + 1), ends[k] - 1))]
    \o (IF (IF ends = <<>> THEN 0 ELSE ends[Len(ends)]) < Len(t)
        THEN <<SubSeq(t, (IF ends = <<>> THEN 0 ELSE ends[Len(ends)]) + 1, Len(t))>>
        ELSE <<>>)

\* str::lines: the text split at "\n"; a final line ending is not followed
\* by an empty line
Lines(text) ==
    With(text, LAMBDA t : With(LineEnds(t, 1, Len(t)), LAMBDA ends : LinesAt(t, ends)))

\* Iterator::take(n)
Take(seq, n) == SubSeq(seq, 1, IF Len(seq) < n THEN Len(seq) ELSE n)

\* [String]::join(sep), the strings joined by halves
RECURSIVE Join(_, _)
Join(strs, sep) ==
    With(strs, LAMBDA v :
        IF Len(v) = 0 THEN <<>>
        ELSE IF Len(v) = 1 THEN v[1]
        ELSE Join(SubSeq(v, 1, Len(v) \div 2), sep) \o sep
                 \o Join(SubSeq(v, Len(v) \div 2 + 1, Len(v)), sep))

\* ------------------------------------------------------- words.json (serde)
\* The snapshot is the sequence of the JSON tokens of to_string_pretty (its
\* white space left out); every token is a sequence of characters, a string
\* token keeps its quotes and its escapes.

\* a writer that escapes no character
JsonEscapeChar_plain(c) == <<c>>

\* serde_json's escapes of the characters of a string
JsonEscapeChar(c) ==
    CASE c = "\"" -> <<"\\", "\"">>
      [] c = "\\" -> <<"\\", "\\">>
      [] c = "\n" -> <<"\\", "n">>
      [] c = "\t" -> <<"\\", "t">>
      [] c = "\r" -> <<"\\", "r">>
      [] OTHER -> <<c>>

RECURSIVE JsonEscape(_)
JsonEscape(str) ==
    IF str = <<>> THEN <<>> ELSE JsonEscapeChar(Head(str)) \o JsonEscape(Tail(str))

JsonString(str) == <<"\"">> \o JsonEscape(str) \o <<"\"">>

KeyGroups == <<"g", "r", "o", "u", "p", "s">>

KeyName == <<"n", "a", "m", "e">>

KeyWords == <<"w", "o", "r", "d", "s">>

KeyEnglish == <<"e", "n", "g", "l", "i", "s", "h">>

KeyChinese == <<"c", "h", "i", "n", "e", "s", "e">>

KeyGroup == <<"g", "r", "o", "u", "p">>

\* one "key": value member, value being a token sequence
JsonMember(key, value) == <<JsonString(key), <<":">>>> \o value

\* the token sequences parts[1], parts[2], ... separated by commas (put
\* together by halves)
RECURSIVE JsonCommaList(_)
JsonCommaList(parts) ==
    With(parts, LAMBDA v :
        IF Len(v) = 0 THEN <<>>
        ELSE IF Len(v) = 1 THEN v[1]
        ELSE JsonCommaList(SubSeq(v, 1, Len(v) \div 2)) \o <<<<",">>>>
                 \o JsonCommaList(SubSeq(v, Len(v) \div 2 + 1, Len(v))))

JsonObject(members) == <<<<"{">>>> \o JsonCommaList(members) \o <<<<"}">>>>

JsonArray(items) == <<<<"[">>>> \o JsonCommaList(items) \o <<<<"]">>>>

\* #[derive(Serialize)] struct Word
SerializeWord(w) ==
    JsonObject(<<JsonMember(KeyEnglish, <<JsonString(w.english)>>),
                 JsonMember(KeyChinese, <<JsonString(w.chinese)>>),
                 JsonMember(KeyGroup, <<JsonString(w.group)>>)>>)

\* #[derive(Serialize)] struct WordTable
SerializeWordTable(t) ==
    JsonObject(<<JsonMember(KeyName, <<JsonString(t.name)>>),
                 JsonMember(KeyWords,
                            JsonArray([i \in DOMAIN t.words |-> SerializeWord(t.words[i])]))>>)

\* #[derive(Serialize)] struct FlashMemory; iter_order is the order in which
\* the HashMap hands out its keys
SerializeFlashMemory(fm, iter_order) ==
    JsonObject(<<JsonMember(KeyGroups,
        JsonObject([i \in DOMAIN iter_order |->
            JsonMember(iter_order[i],
                       JsonArray([j \in DOMAIN fm.groups[iter_order[i]] |->
                                  SerializeWordTable(fm.groups[iter_order[i]][j])]))]))>>)

\* ----------------------------------------------------------- FlashMemoryApp
\* Program constants.  Durations are in half seconds.
CountdownStart == 3

CountdownStep == 2

RevealAfter == 2

WordPeriod == 4

MessageDuration == 6

MaxLines == 100

PrefillLines == 100

\* "新分组" and "新单词表", the names given to a new group and a new word
\* table: one letter stands for their (non-blank, non-digit) characters
NewGroupBase == <<"G">>

NewTableBase == <<"T">>

\* The messages, named for their texts:
\*   MsgGroupCreated "已创建新分组，可直接重命名"   MsgGroupNameEmpty "分组名不能为空"
\*   MsgGroupRenamed "分组已重命名"                 MsgTableNameEmpty "单词表名不能为空"
\*   MsgTableRenamed "单词表已重命名"               MsgTableCreated "已创建新单词表，可直接重命名"
\*   MsgGroupDeleted "分组已删除"                   MsgTableDeleted "单词表已删除"
\*   MsgOver100 "超过100行，仅保存前100行"          MsgNoValidWords "没有找到有效的单词格式"
\*   MsgSaved n "成功保存 {n} 个单词"               MsgSaveFailed e "保存失败: {e}"
\*   MsgEmptyTable "当前单词表为空，无法开始"       MsgFinished "本轮学习结束"
\* A message is the sequence of its name and its arguments; <<>> is String::new().
MsgSaveFailedIo == <<"MsgSaveFailed", "io">>

\* The record s the handlers work on holds the fields of FlashMemoryApp, the
\* file words.json, whether the process has panicked, and what the frame did
\* (save_result, store_result).
show_message(s, m) == [s EXCEPT !.message = m, !.message_timer = MessageDuration]

\* some enumeration of a finite set
SetToSeq(S) ==
    CHOOSE q \in [1..Cardinality(S) -> S] : \A x \in S : \E i \in DOMAIN q : q[i] = x

Reverse(q) == [i \in DOMAIN q |-> q[Len(q) + 1 - i]]

\* HashMap::iter: the keys in an order of the map's own choosing
IterOrder(fm, io) ==
    IF io.reversed THEN Reverse(SetToSeq(DOMAIN fm.groups)) ELSE SetToSeq(DOMAIN fm.groups)

\* serde_json::to_string_pretty(self)
to_string_pretty(fm, io) == SerializeFlashMemory(fm, IterOrder(fm, io))

\* std::fs::write creates (truncates) the file, then writes: a failure of the
\* first leaves the file as it was, a failure of the second leaves it cut
\* short (modelled as empty)
save_to_file(s, io) ==
    CASE io.write = "ok" ->
            [s EXCEPT !.words_json = Some(to_string_pretty(s.flash_memory, io)),
                      !.save_result = "ok"]
      [] io.write = "create_failed" -> [s EXCEPT !.save_result = "failed"]
      [] OTHER -> [s EXCEPT !.words_json = Some(<<>>), !.save_result = "failed"]

auto_save(s, io) ==
    LET s1 == save_to_file(s, io) IN
    IF s1.save_result = "ok" THEN s1 ELSE show_message(s1, MsgSaveFailedIo)

get_current_words(s) ==
    IF IsSome(s.current_group) /\ IsSome(s.current_word_table)
    THEN LET tables == get_word_tables_in_group(s.flash_memory, Unwrap(s.current_group)) IN
         IF IsSome(tables) /\ AnyNamed(Unwrap(tables), Unwrap(s.current_word_table))
         THEN Unwrap(tables)[Position(Unwrap(tables), Unwrap(s.current_word_table))].words
         ELSE <<>>
    ELSE <<>>

\* the line of parse_words_from_text that does not trim what follows the
\* first space
ParseLine_untrimmed(raw, group) ==
    LET line == Trim(raw) IN
    IF line = <<>> THEN <<>>
    ELSE LET space_pos == Find(line, " ") IN
         IF space_pos = 0 THEN <<>>
         ELSE LET english == Trim(SubSeq(line, 1, space_pos - 1))
                  chinese == SubSeq(line, space_pos + 1, Len(line))
              IN IF english # <<>> /\ chinese # <<>>
                 THEN <<[english |-> english, chinese |-> chinese, group |-> group]>>
                 ELSE <<>>

\* one line of parse_words_from_text: the words it adds (none or one)
ParseLine(raw, group) ==
    LET line == Trim(raw) IN
    IF line = <<>> THEN <<>>
    ELSE LET space_pos == Find(line, " ") IN
         IF space_pos = 0 THEN <<>>
         ELSE LET english == Trim(SubSeq(line, 1, space_pos - 1))
                  chinese == Trim(SubSeq(line, space_pos + 1, Len(line)))
              IN IF english # <<>> /\ chinese # <<>>
                 THEN <<[english |-> english, chinese |-> chinese, group |-> group]>>
                 ELSE <<>>

\* the for loop of parse_words_from_text: the words of the lines in their
\* order (put together by halves)
RECURSIVE ParseLines(_, _)
ParseLines(lines, group) ==
    With(lines, LAMBDA v :
        IF Len(v) = 0 THEN <<>>
        ELSE IF Len(v) = 1 THEN ParseLine(v[1], group)
        ELSE ParseLines(SubSeq(v, 1, Len(v) \div 2), group)
                 \o ParseLines(SubSeq(v, Len(v) \div 2 + 1, Len(v)), group))

parse_words_from_text(text, group) == ParseLines(Lines(text), group)

\* the message timer at the start of update; d is the time since the last frame
update_message_timer(s, d) ==
    IF s.message_timer > 0
    THEN LET t == s.message_timer - d IN
         [s EXCEPT !.message_timer = t, !.message = IF t <= 0 THEN <<>> ELSE @]
    ELSE s

\* ---- the side panel
\* the while loop of the "+" click: the first unused name among base, base2, ...
RECURSIVE UnusedGroupName(_, _, _, _)
UnusedGroupName(fm, base, idx, name) ==
    IF HasGroup(fm, name)
    THEN UnusedGroupName(fm, base, idx + 1, FormatNameIdx(base, idx + 1))
    ELSE name

click_new_group(s, io) ==
    LET name == UnusedGroupName(s.flash_memory, NewGroupBase, 1, NewGroupBase)
        s1 == [s EXCEPT !.flash_memory = create_group_if_absent(@, name),
                        !.store_result = "Ok",
                        !.current_group = Some(name),
                        !.renaming_group_active = TRUE,
                        !.renaming_input = name]
    IN auto_save(show_message(s1, <<"MsgGroupCreated">>), io)

\* confirm || lost_focus on the text box of group g
confirm_group_rename(s, g, io) ==
    LET new_name == Trim(s.renaming_input) IN
    IF new_name = <<>>
    THEN [show_message(s, <<"MsgGroupNameEmpty">>) EXCEPT !.renaming_group_active = FALSE]
    ELSE LET r == rename_group(s.flash_memory, g, new_name) IN
         IF r.res = "Ok"
         THEN auto_save(show_message([s EXCEPT !.flash_memory = r.fm,
                                               !.store_result = r.res,
                                               !.current_group = Some(new_name),
                                               !.renaming_group_active = FALSE],
                                     <<"MsgGroupRenamed">>), io)
         ELSE [show_message(s, <<r.res>>) EXCEPT !.store_result = r.res,
                                                  !.renaming_group_active = FALSE]

cancel_group_rename(s) == [s EXCEPT !.renaming_group_active = FALSE]

double_click_group(s, g) ==
    [s EXCEPT !.current_group = Some(g),
              !.renaming_group_active = TRUE,
              !.renaming_input = g]

click_group(s, g) ==
    IF s.current_group = Some(g)
    THEN [s EXCEPT !.current_group = None, !.current_word_table = None]
    ELSE [s EXCEPT !.current_group = Some(g), !.current_word_table = None]

right_click_group(s, g) ==
    [s EXCEPT !.context_menu_group = Some(g), !.show_context_menu = TRUE]

\* confirm || lost_focus on the text box of table table_name of group g
confirm_table_rename(s, g, table_name, io) ==
    LET new_name == Trim(s.renaming_word_table_input) IN
    IF new_name = <<>>
    THEN [show_message(s, <<"MsgTableNameEmpty">>) EXCEPT !.renaming_word_table_active = FALSE]
    ELSE LET r == rename_word_table(s.flash_memory, g, table_name, new_name) IN
         IF r.res = "Ok"
         THEN auto_save(show_message([s EXCEPT !.flash_memory = r.fm,
                                               !.store_result = r.res,
                                               !.current_word_table = Some(new_name),
                                               !.renaming_word_table_active = FALSE],
                                     <<"MsgTableRenamed">>), io)
         ELSE [show_message(s, <<r.res>>) EXCEPT !.store_result = r.res,
                                                  !.renaming_word_table_active = FALSE]

cancel_table_rename(s) == [s EXCEPT !.renaming_word_table_active = FALSE]

double_click_table(s, table_name) ==
    [s EXCEPT !.current_word_table = Some(table_name),
              !.renaming_word_table_active = TRUE,
              !.renaming_word_table_input = table_name]

click_table(s, table_name) == [s EXCEPT !.current_word_table = Some(table_name)]

right_click_table(s, g, table_name) ==
    [s EXCEPT !.context_menu_word_table = Some(<<g, table_name>>),
              !.show_word_table_context_menu = TRUE]

\* ---- the context menu of a group
menu_new_word_table(s, io) ==
    LET s1 == IF IsSome(s.context_menu_group)
              THEN LET group == Unwrap(s.context_menu_group) IN
                   auto_save(show_message(
                       [s EXCEPT !.flash_memory = create_word_table(@, group, NewTableBase),
                                 !.store_result = "Ok",
                                 !.current_group = Some(group),
                                 !.current_word_table = Some(NewTableBase),
                                 !.renaming_word_table_active = TRUE,
                                 !.renaming_word_table_input = NewTableBase],
                       <<"MsgTableCreated">>), io)
              ELSE s
    IN [s1 EXCEPT !.show_context_menu = FALSE]

menu_delete_group(s, io) ==
    LET s1 == IF IsSome(s.context_menu_group)
              THEN LET group == Unwrap(s.context_menu_group)
                       r == delete_group(s.flash_memory, group)
                   IN IF r.res = "Ok"
                      THEN auto_save(show_message(
                               [s EXCEPT !.flash_memory = r.fm,
                                         !.store_result = r.res,
                                         !.current_group =
                                             IF @ = Some(group) THEN None ELSE @,
                                         !.current_word_table =
                                             IF s.current_group = Some(group) THEN None ELSE @],
                               <<"MsgGroupDeleted">>), io)
                      ELSE [show_message(s, <<r.res>>) EXCEPT !.store_result = r.res]
              ELSE s
    IN [s1 EXCEPT !.show_context_menu = FALSE]

\* ---- the context menu of a word table
\* the text the editor opens with: the table's words, "english chinese" a line
PrefillLine_chinese_first(w) == w.chinese \o <<" ">> \o w.english

PrefillLine(w) == w.english \o <<" ">> \o w.chinese

Prefill(s, group, table_name) ==
    LET tables == get_word_tables_in_group(s.flash_memory, group) IN
    IF IsSome(tables) /\ AnyNamed(Unwrap(tables), table_name)
    THEN LET words == Take(Unwrap(tables)[Position(Unwrap(tables), table_name)].words,
                           PrefillLines)
         IN Join([i \in DOMAIN words |-> PrefillLine(words[i])], <<"\n">>)
    ELSE <<>>

menu_modify(s) ==
    LET s1 == IF IsSome(s.context_menu_word_table)
              THEN LET group == Unwrap(s.context_menu_word_table)[1]
                       table_name == Unwrap(s.context_menu_word_table)[2]
                   IN [s EXCEPT !.current_group = Some(group),
                                !.current_word_table = Some(table_name),
                                !.current_page = 0,
                                !.editing_word_table = Some(<<group, table_name>>),
                                !.word_table_content = Prefill(s, group, table_name)]
              ELSE s
    IN [s1 EXCEPT !.show_word_table_context_menu = FALSE]

\* the delete of the table menu without its auto_save
menu_delete_table_unsaved(s, io) ==
    LET s1 == IF IsSome(s.context_menu_word_table)
              THEN LET group == Unwrap(s.context_menu_word_table)[1]
                       table_name == Unwrap(s.context_menu_word_table)[2]
                       r == delete_word_table(s.flash_memory, group, table_name)
                   IN IF r.res = "Ok"
                      THEN show_message(
                               [s EXCEPT !.flash_memory = r.fm,
                                         !.store_result = r.res,
                                         !.current_word_table =
                                             IF @ = Some(table_name) THEN None ELSE @],
                               <<"MsgTableDeleted">>)
                      ELSE [show_message(s, <<r.res>>) EXCEPT !.store_result = r.res]
              ELSE s
    IN [s1 EXCEPT !.show_word_table_context_menu = FALSE]

menu_delete_table(s, io) ==
    LET s1 == IF IsSome(s.context_menu_word_table)
              THEN LET group == Unwrap(s.context_menu_word_table)[1]
                       table_name == Unwrap(s.context_menu_word_table)[2]
                       r == delete_word_table(s.flash_memory, group, table_name)
                   IN IF r.res = "Ok"
                      THEN auto_save(show_message(
                               [s EXCEPT !.flash_memory = r.fm,
                                         !.store_result = r.res,
                                         !.current_word_table =
                                             IF @ = Some(table_name) THEN None ELSE @],
                               <<"MsgTableDeleted">>), io)
                      ELSE [show_message(s, <<r.res>>) EXCEPT !.store_result = r.res]
              ELSE s
    IN [s1 EXCEPT !.show_word_table_context_menu = FALSE]

\* a primary click outside the rectangle of an open menu closes it
close_menus(s, click) ==
    [s EXCEPT !.show_word_table_context_menu =
                  IF @ /\ click.primary /\ ~click.in_table_menu THEN FALSE ELSE @,
              !.show_context_menu =
                  IF @ /\ click.primary /\ ~click.in_group_menu THEN FALSE ELSE @]

\* ---- the central panel: the editor of a word table
editor_back(s) == [s EXCEPT !.editing_word_table = None, !.word_table_content = <<>>]

\* the save of the editor that parses all the lines of the text
editor_save_all_lines(s, io) ==
    IF IsSome(s.editing_word_table)
    THEN LET group == Unwrap(s.editing_word_table)[1]
             table_name == Unwrap(s.editing_word_table)[2]
             total_lines == Len(Lines(s.word_table_content))
             limited_text == Join(Lines(s.word_table_content), <<"\n">>)
             words == parse_words_from_text(limited_text, group)
             s1 == IF total_lines > MaxLines THEN show_message(s, <<"MsgOver100">>) ELSE s
         IN IF words = <<>>
            THEN show_message(s1, <<"MsgNoValidWords">>)
            ELSE LET r == add_words_to_table(s1.flash_memory, group, table_name, words) IN
                 IF r.res = "Ok"
                 THEN LET s2 == auto_save([s1 EXCEPT !.flash_memory = r.fm,
                                                      !.store_result = r.res], io)
                          s3 == show_message(s2, <<"MsgSaved", ToString(Len(words))>>)
                      IN [s3 EXCEPT !.current_group = Some(group),
                                    !.current_word_table = Some(table_name),
                                    !.current_page = 0,
                                    !.editing_word_table = None,
                                    !.word_table_content = <<>>]
                 ELSE [show_message(s1, <<"MsgSaveFailed", r.res>>) EXCEPT
                           !.store_result = r.res]
    ELSE s

editor_save(s, io) ==
    IF IsSome(s.editing_word_table)
    THEN LET group == Unwrap(s.editing_word_table)[1]
             table_name == Unwrap(s.editing_word_table)[2]
             total_lines == Len(Lines(s.word_table_content))
             limited_text == Join(Take(Lines(s.word_table_content), MaxLines), <<"\n">>)
             words == parse_words_from_text(limited_text, group)
             s1 == IF total_lines > MaxLines THEN show_message(s, <<"MsgOver100">>) ELSE s
         IN IF words = <<>>
            THEN show_message(s1, <<"MsgNoValidWords">>)
            ELSE LET r == add_words_to_table(s1.flash_memory, group, table_name, words) IN
                 IF r.res = "Ok"
                 THEN LET s2 == auto_save([s1 EXCEPT !.flash_memory = r.fm,
                                                      !.store_result = r.res], io)
                          s3 == show_message(s2, <<"MsgSaved", ToString(Len(words))>>)
                      IN [s3 EXCEPT !.current_group = Some(group),
                                    !.current_word_table = Some(table_name),
                                    !.current_page = 0,
                                    !.editing_word_table = None,
                                    !.word_table_content = <<>>]
                 ELSE [show_message(s1, <<"MsgSaveFailed", r.res>>) EXCEPT
                           !.store_result = r.res]
    ELSE s

\* ---- the central panel: the buttons of the study session
\* since_tick is now - last_tick
\* click_start that leaves flash_index where the last session ended
click_start_keeping_index(s) ==
    LET total == Len(get_current_words(s)) IN
    IF total = 0
    THEN show_message(s, <<"MsgEmptyTable">>)
    ELSE [s EXCEPT !.flash_mode = "Started",
                   !.flash_timer = 0,
                   !.countdown_remaining = CountdownStart,
                   !.countdown_timer = 0,
                   !.since_tick = 0]

click_start(s) ==
    LET total == Len(get_current_words(s)) IN
    IF total = 0
    THEN show_message(s, <<"MsgEmptyTable">>)
    ELSE [s EXCEPT !.flash_mode = "Started",
                   !.flash_index = 0,
                   !.flash_timer = 0,
                   !.countdown_remaining = CountdownStart,
                   !.countdown_timer = 0,
                   !.since_tick = 0]

\* click_pause whose resume does not write last_tick
click_pause_keeping_last_tick(s) ==
    CASE s.flash_mode = "Started" -> [s EXCEPT !.flash_mode = "Paused", !.since_tick = 0]
      [] s.flash_mode = "Paused" -> [s EXCEPT !.flash_mode = "Started"]
      [] OTHER -> s

click_pause(s) ==
    CASE s.flash_mode = "Started" -> [s EXCEPT !.flash_mode = "Paused", !.since_tick = 0]
      [] s.flash_mode = "Paused" -> [s EXCEPT !.flash_mode = "Started", !.since_tick = 0]
      [] OTHER -> s

\* click_end that leaves the timer of the word running
click_end_keeping_timer(s) ==
    [s EXCEPT !.flash_mode = "Preview",
              !.current_page = 0,
              !.flash_index = 0,
              !.countdown_remaining = 0,
              !.countdown_timer = 0,
              !.since_tick = 0]

\* click_end that leaves the countdown where it was
click_end_keeping_countdown(s) ==
    [s EXCEPT !.flash_mode = "Preview",
              !.current_page = 0,
              !.flash_index = 0,
              !.flash_timer = 0,
              !.countdown_timer = 0,
              !.since_tick = 0]

click_end(s) ==
    [s EXCEPT !.flash_mode = "Preview",
              !.current_page = 0,
              !.flash_index = 0,
              !.flash_timer = 0,
              !.countdown_remaining = 0,
              !.countdown_timer = 0,
              !.since_tick = 0]

\* ---- the central panel: the study view
\* no poll: the frame has not read the clock
NoPoll == -1

\* what a frame finds when it begins
Found(s) ==
    [flash_memory |-> s.flash_memory,
     current_group |-> s.current_group,
     current_word_table |-> s.current_word_table,
     message |-> s.message,
     editing_word_table |-> s.editing_word_table,
     word_table_content |-> s.word_table_content,
     flash_mode |-> s.flash_mode,
     flash_index |-> s.flash_index,
     flash_timer |-> s.flash_timer,
     countdown_remaining |-> s.countdown_remaining,
     countdown_timer |-> s.countdown_timer,
     since_tick |-> s.since_tick,
     dt |-> NoPoll]

PrevOff ==
    [flash_memory |-> NewFlashMemory,
     current_group |-> None,
     current_word_table |-> None,
     message |-> <<>>,
     editing_word_table |-> None,
     word_table_content |-> <<>>,
     flash_mode |-> "off",
     flash_index |-> 0,
     flash_timer |-> 0,
     countdown_remaining |-> 0,
     countdown_timer |-> 0,
     since_tick |-> 0,
     dt |-> NoPoll]

\* the poll has measured dt
Polled(p, dt) == IF p.flash_mode = "off" THEN p ELSE [p EXCEPT !.dt = dt]

\* the poll of a Started session over all_words: dt = now - last_tick
\* the poll that goes back to the first word after the last one
advance_wrapping(s, all_words) ==
    LET dt == s.since_tick
        s1 == [s EXCEPT !.since_tick = 0, !.prev = Polled(@, dt)]
    IN IF s1.countdown_remaining > 0
       THEN LET timer == s1.countdown_timer + dt IN
            IF timer >= CountdownStep
            THEN [s1 EXCEPT !.countdown_remaining = @ - 1,
                            !.countdown_timer = 0,
                            !.flash_timer = IF s1.countdown_remaining - 1 = 0 THEN 0 ELSE @]
            ELSE [s1 EXCEPT !.countdown_timer = timer]
       ELSE LET timer == s1.flash_timer + dt IN
            IF timer >= WordPeriod
            THEN [s1 EXCEPT !.flash_timer = 0,
                            !.flash_index = (@ + 1) % Len(all_words)]
            ELSE [s1 EXCEPT !.flash_timer = timer]

\* the poll that keeps what the timer of the word has above its period
advance_carrying_over(s, all_words) ==
    LET dt == s.since_tick
        s1 == [s EXCEPT !.since_tick = 0, !.prev = Polled(@, dt)]
    IN IF s1.countdown_remaining > 0
       THEN LET timer == s1.countdown_timer + dt IN
            IF timer >= CountdownStep
            THEN [s1 EXCEPT !.countdown_remaining = @ - 1,
                            !.countdown_timer = 0,
                            !.flash_timer = IF s1.countdown_remaining - 1 = 0 THEN 0 ELSE @]
            ELSE [s1 EXCEPT !.countdown_timer = timer]
       ELSE LET timer == s1.flash_timer + dt IN
            IF timer >= WordPeriod
            THEN IF s1.flash_index + 1 < Len(all_words)
                 THEN [s1 EXCEPT !.flash_timer = timer - WordPeriod, !.flash_index = @ + 1]
                 ELSE show_message([s1 EXCEPT !.flash_timer = timer - WordPeriod,
                                              !.flash_mode = "Preview",
                                              !.current_page = 0],
                                   <<"MsgFinished">>)
            ELSE [s1 EXCEPT !.flash_timer = timer]

\* the poll that takes a second off the countdown for every second of dt
advance_catching_up(s, all_words) ==
    LET dt == s.since_tick
        s1 == [s EXCEPT !.since_tick = 0, !.prev = Polled(@, dt)]
    IN IF s1.countdown_remaining > 0
       THEN LET timer == s1.countdown_timer + dt
                left == IF s1.countdown_remaining > timer \div CountdownStep
                        THEN s1.countdown_remaining - (timer \div CountdownStep) ELSE 0
            IN
            IF timer >= CountdownStep
            THEN [s1 EXCEPT !.countdown_remaining = left,
                            !.countdown_timer = 0,
                            !.flash_timer = IF left = 0 THEN 0 ELSE @]
            ELSE [s1 EXCEPT !.countdown_timer = timer]
       ELSE LET timer == s1.flash_timer + dt IN
            IF timer >= WordPeriod
            THEN IF s1.flash_index + 1 < Len(all_words)
                 THEN [s1 EXCEPT !.flash_timer = 0, !.flash_index = @ + 1]
                 ELSE show_message([s1 EXCEPT !.flash_timer = 0,
                                              !.flash_mode = "Preview",
                                              !.current_page = 0],
                                   <<"MsgFinished">>)
            ELSE [s1 EXCEPT !.flash_timer = timer]

\* the poll that stays on the last word when its time is over
advance_lingering(s, all_words) ==
    LET dt == s.since_tick IN
    With([s EXCEPT !.since_tick = 0, !.prev = Polled(@, dt)], LAMBDA s1 :
       IF s1.countdown_remaining > 0
       THEN LET timer == s1.countdown_timer + dt IN
            IF timer >= CountdownStep
            THEN [s1 EXCEPT !.countdown_remaining = @ - 1,
                            !.countdown_timer = 0,
                            !.flash_timer = IF s1.countdown_remaining - 1 = 0 THEN 0 ELSE @]
            ELSE [s1 EXCEPT !.countdown_timer = timer]
       ELSE LET timer == s1.flash_timer + dt IN
            IF timer >= WordPeriod
            THEN IF s1.flash_index + 1 < Len(all_words)
                 THEN [s1 EXCEPT !.flash_timer = 0, !.flash_index = @ + 1]
                 ELSE [s1 EXCEPT !.flash_timer = 0]
            ELSE [s1 EXCEPT !.flash_timer = timer])

advance(s, all_words) ==
    LET dt == s.since_tick IN
    With([s EXCEPT !.since_tick = 0, !.prev = Polled(@, dt)], LAMBDA s1 :
       IF s1.countdown_remaining > 0
       THEN LET timer == s1.countdown_timer + dt IN
            IF timer >= CountdownStep
            THEN [s1 EXCEPT !.countdown_remaining = @ - 1,
                            !.countdown_timer = 0,
                            !.flash_timer = IF s1.countdown_remaining - 1 = 0 THEN 0 ELSE @]
            ELSE [s1 EXCEPT !.countdown_timer = timer]
       ELSE LET timer == s1.flash_timer + dt IN
            IF timer >= WordPeriod
            THEN IF s1.flash_index + 1 < Len(all_words)
                 THEN [s1 EXCEPT !.flash_timer = 0, !.flash_index = @ + 1]
                 ELSE show_message([s1 EXCEPT !.flash_timer = 0,
                                              !.flash_mode = "Preview",
                                              !.current_page = 0],
                                   <<"MsgFinished">>)
            ELSE [s1 EXCEPT !.flash_timer = timer])

\* what the central panel shows: nothing (the frame has panicked), the
\* editor, the heading (no table is selected), the notice that the selected
\* table is empty, the table of all words, the countdown, or the card of one
\* word (its english form), and whether the chinese form is shown with it
Shown(card, meaning) == [card |-> card, meaning |-> meaning]

\* the label of the message is drawn: under the heading, when there is one
message_shown(s) == s.shown.card = "heading" /\ s.message # <<>>

\* show_meaning
show_meaning(s) == s.countdown_remaining = 0 /\ s.flash_timer >= RevealAfter

\* what the card shows: the countdown, or all_words[flash_index] with or
\* without its meaning; indexing past the end of all_words panics
render_card(s, all_words) ==
    IF s.countdown_remaining > 0
    THEN [s EXCEPT !.shown = Shown("countdown", FALSE)]
    ELSE IF s.flash_index < Len(all_words)
         THEN [s EXCEPT !.shown = Shown("word", show_meaning(s))]
         ELSE [s EXCEPT !.panicked = TRUE, !.shown = Shown("none", FALSE)]

\* the word area of the central panel, drawn when no table is edited
study_view(s) ==
    With([s EXCEPT !.shown = Shown("none", FALSE)], LAMBDA s0 :
    IF IsSome(s0.current_word_table)
    THEN With(get_current_words(s0), LAMBDA all_words :
         IF all_words = <<>> THEN [s0 EXCEPT !.shown = Shown("empty", FALSE)]
         ELSE IF s0.flash_mode = "Preview" THEN [s0 EXCEPT !.shown = Shown("table", TRUE)]
         ELSE With(IF s0.flash_mode = "Started" THEN advance(s0, all_words) ELSE s0,
                   LAMBDA s1 : render_card(s1, all_words)))
    ELSE [s0 EXCEPT !.shown = Shown("heading", FALSE)])

\* the central panel: the editor while a table is edited, else the study view
central_panel(s) ==
    IF IsSome(s.editing_word_table) THEN [s EXCEPT !.shown = Shown("editor", FALSE)]
    ELSE study_view(s)

\* ------------------------------------------------- words.json (serde), read
\* serde_json::from_str on the token sequence.  The reader takes the members
\* of a struct in the order the writer gives them; anything else is an error
\* (the model hands it no other well-formed input).  A result is
\* [ok, val, next]: next is the index of the first token not yet read.
JsonFail == [ok |-> FALSE, val |-> <<>>, next |-> 0]

JsonOk(val, next) == [ok |-> TRUE, val |-> val, next |-> next]

TokenAt(ts, i) == IF i >= 1 /\ i <= Len(ts) THEN ts[i] ELSE <<>>

IsStringToken(t) == Len(t) >= 2 /\ t[1] = "\"" /\ t[Len(t)] = "\""

JsonUnescapeChar(c) ==
    CASE c = "n" -> "\n"
      [] c = "t" -> "\t"
      [] c = "r" -> "\r"
      [] OTHER -> c

RECURSIVE JsonUnescape(_)
JsonUnescape(e) ==
    IF e = <<>> THEN <<>>
    ELSE IF Head(e) = "\\" /\ Len(e) >= 2
         THEN <<JsonUnescapeChar(e[2])>> \o JsonUnescape(SubSeq(e, 3, Len(e)))
         ELSE <<Head(e)>> \o JsonUnescape(Tail(e))

StringValue(t) == JsonUnescape(SubSeq(t, 2, Len(t) - 1))

\* "key" : "string" at i
IsStringMember(ts, i, key) ==
    /\ TokenAt(ts, i) = JsonString(key)
    /\ TokenAt(ts, i + 1) = <<":">>
    /\ IsStringToken(TokenAt(ts, i + 2))

\* #[derive(Deserialize)] struct Word
DeserializeWord(ts, i) ==
    IF /\ TokenAt(ts, i) = <<"{">>
       /\ IsStringMember(ts, i + 1, KeyEnglish)
       /\ TokenAt(ts, i + 4) = <<",">>
       /\ IsStringMember(ts, i + 5, KeyChinese)
       /\ TokenAt(ts, i + 8) = <<",">>
       /\ IsStringMember(ts, i + 9, KeyGroup)
       /\ TokenAt(ts, i + 12) = <<"}">>
    THEN JsonOk([english |-> StringValue(ts[i + 3]),
                 chinese |-> StringValue(ts[i + 7]),
                 group |-> StringValue(ts[i + 11])], i + 13)
    ELSE JsonFail

\* Vec<Word>: the items after "[" or after a comma, up to "]"
RECURSIVE DeserializeWordItems(_, _, _)
DeserializeWordItems(ts, i, acc) ==
    With(DeserializeWord(ts, i), LAMBDA w :
        IF ~w.ok THEN JsonFail
        ELSE IF TokenAt(ts, w.next) = <<",">>
             THEN DeserializeWordItems(ts, w.next + 1, Append(acc, w.val))
        ELSE IF TokenAt(ts, w.next) = <<"]">> THEN JsonOk(Append(acc, w.val), w.next + 1)
        ELSE JsonFail)

DeserializeWords(ts, i) ==
    IF TokenAt(ts, i) # <<"[">> THEN JsonFail
    ELSE IF TokenAt(ts, i + 1) = <<"]">> THEN JsonOk(<<>>, i + 2)
    ELSE DeserializeWordItems(ts, i + 1, <<>>)

\* #[derive(Deserialize)] struct WordTable
DeserializeWordTable(ts, i) ==
    IF /\ TokenAt(ts, i) = <<"{">>
       /\ IsStringMember(ts, i + 1, KeyName)
       /\ TokenAt(ts, i + 4) = <<",">>
       /\ TokenAt(ts, i + 5) = JsonString(KeyWords)
       /\ TokenAt(ts, i + 6) = <<":">>
    THEN With(DeserializeWords(ts, i + 7), LAMBDA ws :
             IF ws.ok /\ TokenAt(ts, ws.next) = <<"}">>
             THEN JsonOk([name |-> StringValue(ts[i + 3]), words |-> ws.val], ws.next + 1)
             ELSE JsonFail)
    ELSE JsonFail

RECURSIVE DeserializeTableItems(_, _, _)
DeserializeTableItems(ts, i, acc) ==
    With(DeserializeWordTable(ts, i), LAMBDA t :
        IF ~t.ok THEN JsonFail
        ELSE IF TokenAt(ts, t.next) = <<",">>
             THEN DeserializeTableItems(ts, t.next + 1, Append(acc, t.val))
        ELSE IF TokenAt(ts, t.next) = <<"]">> THEN JsonOk(Append(acc, t.val), t.next + 1)
        ELSE JsonFail)

DeserializeTables(ts, i) ==
    IF TokenAt(ts, i) # <<"[">> THEN JsonFail
    ELSE IF TokenAt(ts, i + 1) = <<"]">> THEN JsonOk(<<>>, i + 2)
    ELSE DeserializeTableItems(ts, i + 1, <<>>)

\* HashMap<String, Vec<WordTable>>: a key met again replaces its value
RECURSIVE DeserializeGroupItems(_, _, _)
DeserializeGroupItems(ts, i, acc) ==
    IF IsStringToken(TokenAt(ts, i)) /\ TokenAt(ts, i + 1) = <<":">>
    THEN With(DeserializeTables(ts, i + 2), LAMBDA t :
             IF ~t.ok THEN JsonFail
             ELSE IF TokenAt(ts, t.next) = <<",">>
                  THEN DeserializeGroupItems(ts, t.next + 1,
                                             MapInsert(acc, StringValue(ts[i]), t.val))
             ELSE IF TokenAt(ts, t.next) = <<"}">>
                  THEN JsonOk(MapInsert(acc, StringValue(ts[i]), t.val), t.next + 1)
             ELSE JsonFail)
    ELSE JsonFail

DeserializeGroups(ts, i) ==
    IF TokenAt(ts, i) # <<"{">> THEN JsonFail
    ELSE IF TokenAt(ts, i + 1) = <<"}">> THEN JsonOk(<<>>, i + 2)
    ELSE DeserializeGroupItems(ts, i + 1, <<>>)

\* #[derive(Deserialize)] struct FlashMemory, and the end of the input
from_str(ts) ==
    IF /\ TokenAt(ts, 1) = <<"{">>
       /\ TokenAt(ts, 2) = JsonString(KeyGroups)
       /\ TokenAt(ts, 3) = <<":">>
    THEN With(DeserializeGroups(ts, 4), LAMBDA g :
             IF g.ok /\ TokenAt(ts, g.next) = <<"}">> /\ g.next = Len(ts)
             THEN JsonOk([groups |-> g.val], g.next + 1)
             ELSE JsonFail)
    ELSE JsonFail

\* load_from_file(..).unwrap_or_else(|_| FlashMemory::new()); file is None
\* when words.json does not exist
load_or_new(file) ==
    IF IsSome(file)
    THEN With(from_str(Unwrap(file)), LAMBDA r : IF r.ok THEN r.val ELSE NewFlashMemory)
    ELSE NewFlashMemory

\* ------------------------------------------------------------------ a frame
\* One call of update: the time d since the last frame, at most one input of
\* the user, then the panels in the order of the code.  A click is where the
\* pointer was: on a primary click, inside the rectangle of the group menu
\* and of the table menu or not.
PollsOff == <<-1>>

FramesOff == -1

NoClick == [primary |-> FALSE, in_group_menu |-> FALSE, in_table_menu |-> FALSE]

Click(in_group_menu, in_table_menu) ==
    [primary |-> TRUE, in_group_menu |-> in_group_menu, in_table_menu |-> in_table_menu]

\* a primary click on a widget of the panels: the menus lie over the panels,
\* so the pointer is in neither menu
PrimaryClicks == {Click(FALSE, FALSE)}

\* a primary click on a button of a menu: the pointer is in that menu, and in
\* the other one or not when both are open
GroupMenuClicks ==
    {Click(TRUE, b) : b \in (IF show_word_table_context_menu THEN BOOLEAN ELSE {FALSE})}

TableMenuClicks ==
    {Click(a, TRUE) : a \in (IF show_context_menu THEN BOOLEAN ELSE {FALSE})}

\* what a save of this frame may meet: the write succeeds or fails in one of
\* the ways P.writes gives (it fails at most MaxIoFaults times in a run), and
\* the map of two groups or more hands out its keys in one of two orders
IoChoices(P) ==
    {[write |-> w, reversed |-> r] :
        w \in (IF io_faults < MaxIoFaults THEN P.writes ELSE P.writes \cap {"ok"}),
        r \in (IF Cardinality(get_groups(flash_memory)) < 2 THEN {FALSE} ELSE BOOLEAN)}

Label(kind, name) == [kind |-> kind, name |-> name]

begin_frame(s, kind, t) ==
    With(
        [s EXCEPT !.since_tick = IF s.flash_mode = "Preview" THEN @
                                 ELSE IF @ + t.d > WordPeriod THEN WordPeriod ELSE @ + t.d,
                  !.event = kind,
                  !.save_result = "none",
                  !.store_result = "none",
                  !.last_click = None,
                  !.frames = IF @ = FramesOff THEN @ ELSE @ + 1,
                  !.prev = IF @.flash_mode = "off" THEN @ ELSE Found(s),
                  !.polls = IF s.frames = FramesOff THEN PollsOff
                            ELSE IF kind = "start" THEN <<>>
                            ELSE IF kind = "idle" /\ @ # PollsOff THEN Append(@, t.d)
                            ELSE PollsOff],
        LAMBDA s0 : update_message_timer(s0, t.unstable_dt))

end_frame(s) == [s EXCEPT !.io_faults = IF s.save_result = "failed" THEN @ + 1 ELSE @]

\* a frame whose input s1 has met in the side panel or in a menu (or nowhere)
side_frame(s1, click) ==
    With(s1, LAMBDA a : With(close_menus(a, click), LAMBDA b :
        With(central_panel(b), LAMBDA c : end_frame(c))))

\* a frame whose input the editor has met, leaving s2
editor_frame(s2) == end_frame([s2 EXCEPT !.shown = Shown("editor", FALSE)])

\* a frame whose input a study button has met, leaving s2
study_frame(s2) == With(s2, LAMBDA a : With(study_view(a), LAMBDA b : end_frame(b)))

\* update runs: no frame has panicked, and the run is not at its last frame
Alive == ~panicked /\ frames < MaxFrames

\* the groups drawn as a label, and those drawn as the rename text box
GroupLabels ==
    {g \in get_groups(flash_memory) : ~(current_group = Some(g) /\ renaming_group_active)}

GroupBoxes ==
    {g \in get_groups(flash_memory) : current_group = Some(g) /\ renaming_group_active}

\* the tables listed: those of the selected group
ListedTables ==
    IF IsSome(current_group) /\ HasGroup(flash_memory, Unwrap(current_group))
    THEN {flash_memory.groups[Unwrap(current_group)][i].name :
              i \in DOMAIN flash_memory.groups[Unwrap(current_group)]}
    ELSE {}

TableLabels ==
    {t \in ListedTables : ~(current_word_table = Some(t) /\ renaming_word_table_active)}

TableBoxes ==
    {t \in ListedTables : current_word_table = Some(t) /\ renaming_word_table_active}

\* The time of a frame: d, the half seconds since the last frame by
\* Instant::now(), and unstable_dt, the frame time egui reports, which only
\* the message timer reads: it is drawn apart from d, as 0 or as long as a
\* message lasts.  Time passes in the frames without an input; a frame with
\* an input takes none.
Times(ds) == {[d |-> d, unstable_dt |-> u] : d \in ds, u \in {0, MessageDuration}}

NoTime == [d |-> 0, unstable_dt |-> 0]

\* ---- the inputs; P gives the frame times and the texts a run may type
Idle(P) ==
    /\ Alive
    /\ \E t \in P.times :
        Commit(side_frame(begin_frame(Self, "idle", t), NoClick))

ClickNewGroup(P) ==
    /\ Alive
    /\ Cardinality(get_groups(flash_memory)) < MaxGroups
    /\ \E io \in IoChoices(P), click \in PrimaryClicks :
        Commit(side_frame(click_new_group(begin_frame(Self, "new_group", NoTime), io), click))

TypeGroupName(P) ==
    /\ Alive
    /\ GroupBoxes # {}
    /\ \E text \in P.group_inputs :
        Commit(side_frame([begin_frame(Self, "type_group_name", NoTime) EXCEPT
                               !.renaming_input = text], NoClick))

ConfirmGroupRename(P) ==
    /\ Alive
    /\ \E g \in GroupBoxes, io \in IoChoices(P) :
        Commit(side_frame(confirm_group_rename(
                              begin_frame(Self, "confirm_group_rename", NoTime), g, io), NoClick))

CancelGroupRename(P) ==
    /\ Alive
    /\ GroupBoxes # {}
    /\ Commit(side_frame(cancel_group_rename(
                              begin_frame(Self, "cancel_group_rename", NoTime)), NoClick))

ClickGroup(P) ==
    /\ Alive
    /\ \E g \in GroupLabels, click \in PrimaryClicks :
        Commit(side_frame([click_group(begin_frame(Self, "click_group", NoTime), g) EXCEPT
                               !.last_click = Some(Label("group", g))], click))

\* the second click of a double click comes right after the first
DoubleClickGroup(P) ==
    /\ Alive
    /\ \E g \in GroupLabels, click \in PrimaryClicks :
        /\ last_click = Some(Label("group", g))
        /\ Commit(side_frame(double_click_group(
                                 begin_frame(Self, "double_click_group", NoTime), g), click))

RightClickGroup(P) ==
    /\ Alive
    /\ \E g \in GroupLabels :
        Commit(side_frame(right_click_group(
                              begin_frame(Self, "right_click_group", NoTime), g), NoClick))

TypeTableName(P) ==
    /\ Alive
    /\ TableBoxes # {}
    /\ \E text \in P.table_inputs :
        Commit(side_frame([begin_frame(Self, "type_table_name", NoTime) EXCEPT
                               !.renaming_word_table_input = text], NoClick))

ConfirmTableRename(P) ==
    /\ Alive
    /\ \E n \in TableBoxes, io \in IoChoices(P) :
        Commit(side_frame(confirm_table_rename(
                              begin_frame(Self, "confirm_table_rename", NoTime),
                              Unwrap(current_group), n, io), NoClick))

CancelTableRename(P) ==
    /\ Alive
    /\ TableBoxes # {}
    /\ Commit(side_frame(cancel_table_rename(
                              begin_frame(Self, "cancel_table_rename", NoTime)), NoClick))

ClickTable(P) ==
    /\ Alive
    /\ \E n \in TableLabels, click \in PrimaryClicks :
        Commit(side_frame([click_table(begin_frame(Self, "click_table", NoTime), n) EXCEPT
                               !.last_click = Some(Label("table", n))], click))

DoubleClickTable(P) ==
    /\ Alive
    /\ \E n \in TableLabels, click \in PrimaryClicks :
        /\ last_click = Some(Label("table", n))
        /\ Commit(side_frame(double_click_table(
                                 begin_frame(Self, "double_click_table", NoTime), n), click))

RightClickTable(P) ==
    /\ Alive
    /\ \E n \in TableLabels :
        Commit(side_frame(right_click_table(
                              begin_frame(Self, "right_click_table", NoTime),
                              Unwrap(current_group), n), NoClick))

MenuNewWordTable(P) ==
    /\ Alive
    /\ show_context_menu
    /\ TableCount(flash_memory) < MaxTables
    /\ \E io \in IoChoices(P), click \in GroupMenuClicks :
        Commit(side_frame(menu_new_word_table(
                              begin_frame(Self, "menu_new_word_table", NoTime), io), click))

MenuDeleteGroup(P) ==
    /\ Alive
    /\ show_context_menu
    /\ \E io \in IoChoices(P), click \in GroupMenuClicks :
        Commit(side_frame(menu_delete_group(
                              begin_frame(Self, "menu_delete_group", NoTime), io), click))

MenuModify(P) ==
    /\ Alive
    /\ show_word_table_context_menu
    /\ \E click \in TableMenuClicks :
        Commit(side_frame(menu_modify(begin_frame(Self, "menu_modify", NoTime)), click))

MenuDeleteTable(P) ==
    /\ Alive
    /\ show_word_table_context_menu
    /\ \E io \in IoChoices(P), click \in TableMenuClicks :
        Commit(side_frame(menu_delete_table(
                              begin_frame(Self, "menu_delete_table", NoTime), io), click))

\* a primary click on nothing, while a menu is open
ClickBlank(P) ==
    /\ Alive
    /\ show_context_menu \/ show_word_table_context_menu
    /\ \E click \in PrimaryClicks :
        Commit(side_frame(begin_frame(Self, "click_blank", NoTime), click))

EditorType(P) ==
    /\ Alive
    /\ IsSome(editing_word_table)
    /\ \E text \in P.texts :
        Commit(editor_frame([begin_frame(Self, "editor_type", NoTime) EXCEPT
                                 !.word_table_content = text]))

EditorBack(P) ==
    /\ Alive
    /\ IsSome(editing_word_table)
    /\ \E click \in PrimaryClicks :
        Commit(editor_frame(editor_back(
                   close_menus(begin_frame(Self, "editor_back", NoTime), click))))

EditorSave(P) ==
    /\ Alive
    /\ IsSome(editing_word_table)
    /\ \E io \in IoChoices(P), click \in PrimaryClicks :
        Commit(editor_frame(editor_save(
                   close_menus(begin_frame(Self, "editor_save", NoTime), click), io)))

ClickStart(P) ==
    /\ Alive
    /\ ~IsSome(editing_word_table)
    /\ flash_mode = "Preview"
    /\ \E click \in PrimaryClicks :
        Commit(study_frame(click_start(
                   close_menus(begin_frame(Self, "start", NoTime), click))))

ClickPause(P) ==
    /\ Alive
    /\ ~IsSome(editing_word_table)
    /\ flash_mode \in {"Started", "Paused"}
    /\ \E click \in PrimaryClicks :
        Commit(study_frame(click_pause(
                   close_menus(begin_frame(Self, "pause", NoTime), click))))

ClickEnd(P) ==
    /\ Alive
    /\ ~IsSome(editing_word_table)
    /\ flash_mode # "Preview"
    /\ \E click \in PrimaryClicks :
        Commit(study_frame(click_end(
                   close_menus(begin_frame(Self, "end", NoTime), click))))

\* FlashMemoryApp::default(), words.json being file
Default(file) ==
    [flash_memory |-> load_or_new(file),
     current_group |-> None,
     current_word_table |-> None,
     message |-> <<>>,
     message_timer |-> 0,
     renaming_group_active |-> FALSE,
     renaming_input |-> <<>>,
     renaming_word_table_active |-> FALSE,
     renaming_word_table_input |-> <<>>,
     context_menu_group |-> None,
     show_context_menu |-> FALSE,
     context_menu_word_table |-> None,
     show_word_table_context_menu |-> FALSE,
     editing_word_table |-> None,
     word_table_content |-> <<>>,
     flash_mode |-> "Preview",
     current_page |-> 0,
     flash_index |-> 0,
     flash_timer |-> 0,
     countdown_remaining |-> 0,
     countdown_timer |-> 0,
     since_tick |-> 0,
     words_json |-> file,
     panicked |-> FALSE,
     last_click |-> None,
     io_faults |-> 0,
     event |-> "init",
     save_result |-> "none",
     store_result |-> "none",
     shown |-> Shown("none", FALSE),
     polls |-> PollsOff,
     frames |-> FramesOff,
     prev |-> PrevOff]

\* the state is the record s
StateIs(s) ==
    /\ flash_memory = s.flash_memory
    /\ current_group = s.current_group
    /\ current_word_table = s.current_word_table
    /\ message = s.message
    /\ message_timer = s.message_timer
    /\ renaming_group_active = s.renaming_group_active
    /\ renaming_input = s.renaming_input
    /\ renaming_word_table_active = s.renaming_word_table_active
    /\ renaming_word_table_input = s.renaming_word_table_input
    /\ context_menu_group = s.context_menu_group
    /\ show_context_menu = s.show_context_menu
    /\ context_menu_word_table = s.context_menu_word_table
    /\ show_word_table_context_menu = s.show_word_table_context_menu
    /\ editing_word_table = s.editing_word_table
    /\ word_table_content = s.word_table_content
    /\ flash_mode = s.flash_mode
    /\ current_page = s.current_page
    /\ flash_index = s.flash_index
    /\ flash_timer = s.flash_timer
    /\ countdown_remaining = s.countdown_remaining
    /\ countdown_timer = s.countdown_timer
    /\ since_tick = s.since_tick
    /\ words_json = s.words_json
    /\ panicked = s.panicked
    /\ last_click = s.last_click
    /\ io_faults = s.io_faults
    /\ event = s.event
    /\ save_result = s.save_result
    /\ store_result = s.store_result
    /\ shown = s.shown
    /\ polls = s.polls
    /\ frames = s.frames
    /\ prev = s.prev

\* --------------------------------------------------------- the specifications
\* The store under any calls: SpecStore calls the methods of FlashMemory with
\* every argument of small sets, present in the store or not, starting from
\* FlashMemory::new().  Return drops the record of the call.
GroupArgs == {<<"g">>, <<"h">>}

TableArgs == {<<"T">>, <<"T", "2">>, <<"U">>}

CreateArgs == {<<"T">>}

WordA == [english |-> <<"a">>, chinese |-> <<"x">>, group |-> <<"g">>]

WordB == [english |-> <<"b">>, chinese |-> <<"y">>, group |-> <<"g">>]

WordsArgs == {<<WordA>>, <<WordB, WordA>>}

NoName == <<>>

NoCall == [op |-> "none", group |-> NoName, a |-> NoName, b |-> NoName,
           words |-> <<>>, res |-> "Ok"]

Called(op, group, a, b, words, res) ==
    [op |-> op, group |-> group, a |-> a, b |-> b, words |-> words, res |-> res]

app_vars ==
    <<current_group, current_word_table, message, message_timer,
      renaming_group_active, renaming_input, renaming_word_table_active,
      renaming_word_table_input, context_menu_group, show_context_menu,
      context_menu_word_table, show_word_table_context_menu, editing_word_table,
      word_table_content, flash_mode, current_page, flash_index, flash_timer,
      countdown_remaining, countdown_timer, since_tick, words_json, panicked,
      last_click, io_faults, event, save_result, store_result, shown, polls,
      frames, prev>>

InitStore ==
    /\ StateIs(Default(None))
    /\ call = NoCall
    /\ before = NewFlashMemory
    /\ deleted = {}

\* a call: the method's result r = [fm, res] becomes the store
Calls(op, group, a, b, words, r) ==
    /\ call = NoCall
    /\ flash_memory' = r.fm
    /\ call' = Called(op, group, a, b, words, r.res)
    /\ before' = flash_memory
    /\ deleted' = (IF op = "delete_group" /\ r.res = "Ok" THEN deleted \cup {group}
                   ELSE deleted) \ get_groups(r.fm)
    /\ UNCHANGED app_vars

CallCreateGroup ==
    \E g \in GroupArgs :
        Calls("create_group_if_absent", g, NoName, NoName, <<>>,
              [fm |-> create_group_if_absent(flash_memory, g), res |-> "Ok"])

CallCreateWordTable ==
    \E g \in GroupArgs, t \in CreateArgs :
        /\ TableCount(flash_memory) < MaxTables
        /\ Calls("create_word_table", g, t, NoName, <<>>,
                 [fm |-> create_word_table(flash_memory, g, t), res |-> "Ok"])

CallRenameGroup ==
    \E old \in GroupArgs, new \in GroupArgs :
        Calls("rename_group", NoName, old, new, <<>>, rename_group(flash_memory, old, new))

CallRenameWordTable ==
    \E g \in GroupArgs, old \in TableArgs, new \in TableArgs :
        Calls("rename_word_table", g, old, new, <<>>,
              rename_word_table(flash_memory, g, old, new))

CallDeleteGroup ==
    \E g \in GroupArgs :
        Calls("delete_group", g, NoName, NoName, <<>>, delete_group(flash_memory, g))

CallDeleteWordTable ==
    \E g \in GroupArgs, t \in TableArgs :
        Calls("delete_word_table", g, t, NoName, <<>>, delete_word_table(flash_memory, g, t))

CallGetWordTablesInGroup ==
    \E g \in GroupArgs :
        Calls("get_word_tables_in_group", g, NoName, NoName, <<>>,
              [fm |-> flash_memory,
               res |-> IF IsSome(get_word_tables_in_group(flash_memory, g)) THEN "Some"
                       ELSE "None"])

CallAddWordsToTable ==
    \E g \in GroupArgs, t \in TableArgs, ws \in WordsArgs :
        Calls("add_words_to_table", g, t, NoName, ws,
              add_words_to_table(flash_memory, g, t, ws))

Return ==
    /\ call # NoCall
    /\ call' = NoCall
    /\ before' = flash_memory
    /\ UNCHANGED flash_memory
    /\ UNCHANGED deleted
    /\ UNCHANGED app_vars

NextStore ==
    \/ CallCreateGroup
    \/ CallCreateWordTable
    \/ CallRenameGroup
    \/ CallRenameWordTable
    \/ CallDeleteGroup
    \/ CallDeleteWordTable
    \/ CallGetWordTablesInGroup
    \/ CallAddWordsToTable
    \/ Return

SpecStore == InitStore /\ [][NextStore]_vars

\* Groups renamed beside others: SpecGroups creates groups and tables, puts
\* words in tables and renames and deletes groups as SpecStore does, with one
\* more name for a group, which rename_group gives and takes, so that a group
\* gets a new name while another group is in the store.
OtherGroup == <<"k">>

CallRenameGroupOther ==
    \E old \in GroupArgs \cup {OtherGroup}, new \in GroupArgs \cup {OtherGroup} :
        /\ old = OtherGroup \/ new = OtherGroup
        /\ Calls("rename_group", NoName, old, new, <<>>, rename_group(flash_memory, old, new))

NextGroups ==
    \/ CallCreateGroup
    \/ CallCreateWordTable
    \/ CallRenameGroup
    \/ CallRenameGroupOther
    \/ CallDeleteGroup
    \/ CallAddWordsToTable
    \/ Return

SpecGroups == InitStore /\ [][NextGroups]_vars

\* Names typed: SpecNames starts without words.json as SpecEdit does.  The
\* user does all that SpecEdit's user does; the names typed are a new name, a
\* name that is blank and a name that is blank when trimmed, and every save
\* succeeds; prev records what each frame finds.
NamesProfile ==
    [times |-> Times({0}),
     group_inputs |-> {<<"H">>, <<>>, <<" ">>},
     table_inputs |-> {<<"U">>, <<>>, <<" ">>},
     texts |-> {<<"a", " ", "x">>},
     writes |-> {"ok"}]

InitNames ==
    /\ StateIs([Default(None) EXCEPT !.frames = 0, !.prev = Found(Default(None))])
    /\ call = NoCall
    /\ before = NewFlashMemory
    /\ deleted = {}

NextNames ==
    \/ Idle(NamesProfile)
    \/ ClickNewGroup(NamesProfile)
    \/ TypeGroupName(NamesProfile)
    \/ ConfirmGroupRename(NamesProfile)
    \/ CancelGroupRename(NamesProfile)
    \/ ClickGroup(NamesProfile)
    \/ DoubleClickGroup(NamesProfile)
    \/ RightClickGroup(NamesProfile)
    \/ TypeTableName(NamesProfile)
    \/ ConfirmTableRename(NamesProfile)
    \/ CancelTableRename(NamesProfile)
    \/ ClickTable(NamesProfile)
    \/ DoubleClickTable(NamesProfile)
    \/ RightClickTable(NamesProfile)
    \/ MenuNewWordTable(NamesProfile)
    \/ MenuDeleteGroup(NamesProfile)
    \/ MenuModify(NamesProfile)
    \/ MenuDeleteTable(NamesProfile)
    \/ ClickBlank(NamesProfile)
    \/ EditorType(NamesProfile)
    \/ EditorBack(NamesProfile)
    \/ EditorSave(NamesProfile)

SpecNames == InitNames /\ [][NextNames]_vars

\* Groups renamed with their words: SpecOwner starts with the words.json an
\* earlier run has left after "+", a new table and a save of the editor: one
\* group with one table of one word, whose group field names the group.  The
\* user creates, selects and renames groups; every save succeeds.
OwnerStore ==
    [groups |-> MapInsert(<<>>, NewGroupBase,
        <<[name |-> NewTableBase,
           words |-> parse_words_from_text(<<"a", " ", "x">>, NewGroupBase)]>>)]

OwnerFile == Some(to_string_pretty(OwnerStore, [write |-> "ok", reversed |-> FALSE]))

OwnerProfile ==
    [times |-> Times({0}),
     group_inputs |-> {NewGroupBase, <<"H">>},
     table_inputs |-> {},
     texts |-> {},
     writes |-> {"ok"}]

InitOwner ==
    /\ StateIs([Default(OwnerFile) EXCEPT !.frames = 0])
    /\ call = NoCall
    /\ before = NewFlashMemory
    /\ deleted = {}

NextOwner ==
    \/ Idle(OwnerProfile)
    \/ ClickNewGroup(OwnerProfile)
    \/ TypeGroupName(OwnerProfile)
    \/ ConfirmGroupRename(OwnerProfile)
    \/ CancelGroupRename(OwnerProfile)
    \/ ClickGroup(OwnerProfile)
    \/ DoubleClickGroup(OwnerProfile)
    \/ ClickTable(OwnerProfile)

SpecOwner == InitOwner /\ [][NextOwner]_vars

\* The study session: SpecStudy starts with a words.json an earlier run has
\* left: one group, a table of MaxWords words and a table of one word.  The
\* user selects a group and a table, starts, pauses and ends sessions; frames
\* without input come after 0, 0.5, 1 or 2 seconds.
Letters == <<"a", "b", "c", "d", "e", "f", "g", "h">>

StudyWord(i) == [english |-> <<Letters[i]>>, chinese |-> <<"x">>, group |-> NewGroupBase]

StudyStore ==
    [groups |-> MapInsert(<<>>, NewGroupBase,
        <<[name |-> NewTableBase, words |-> [i \in 1..MaxWords |-> StudyWord(i)]],
          [name |-> FormatNameIdx(NewTableBase, 2), words |-> <<StudyWord(1)>>]>>)]

StudyFile == Some(to_string_pretty(StudyStore, [write |-> "ok", reversed |-> FALSE]))

StudyProfile ==
    [times |-> Times({0, 1, 2, 4}),
     group_inputs |-> {},
     table_inputs |-> {},
     texts |-> {},
     writes |-> {"ok"}]

InitStudy ==
    /\ StateIs(Default(StudyFile))
    /\ call = NoCall
    /\ before = NewFlashMemory
    /\ deleted = {}

NextStudy ==
    \/ Idle(StudyProfile)
    \/ ClickGroup(StudyProfile)
    \/ ClickTable(StudyProfile)
    \/ ClickStart(StudyProfile)
    \/ ClickPause(StudyProfile)
    \/ ClickEnd(StudyProfile)

SpecStudy == InitStudy /\ [][NextStudy]_vars

\* Editing: SpecEdit starts without words.json.  The user creates, renames
\* and deletes groups and tables and edits the words of a table, and a save
\* may fail.
EditProfile ==
    [times |-> Times({0}),
     group_inputs |-> {NewGroupBase, <<"H">>},
     table_inputs |-> {NewTableBase, <<"U">>},
     texts |-> {<<"a", " ", "x">>},
     writes |-> {"ok", "create_failed", "write_failed"}]

InitEdit ==
    /\ StateIs([Default(None) EXCEPT !.frames = 0])
    /\ call = NoCall
    /\ before = NewFlashMemory
    /\ deleted = {}

NextEdit ==
    \/ Idle(EditProfile)
    \/ ClickNewGroup(EditProfile)
    \/ TypeGroupName(EditProfile)
    \/ ConfirmGroupRename(EditProfile)
    \/ CancelGroupRename(EditProfile)
    \/ ClickGroup(EditProfile)
    \/ DoubleClickGroup(EditProfile)
    \/ RightClickGroup(EditProfile)
    \/ TypeTableName(EditProfile)
    \/ ConfirmTableRename(EditProfile)
    \/ CancelTableRename(EditProfile)
    \/ ClickTable(EditProfile)
    \/ DoubleClickTable(EditProfile)
    \/ RightClickTable(EditProfile)
    \/ MenuNewWordTable(EditProfile)
    \/ MenuDeleteGroup(EditProfile)
    \/ MenuModify(EditProfile)
    \/ MenuDeleteTable(EditProfile)
    \/ ClickBlank(EditProfile)
    \/ EditorType(EditProfile)
    \/ EditorBack(EditProfile)
    \/ EditorSave(EditProfile)

SpecEdit == InitEdit /\ [][NextEdit]_vars

\* A session left to run: SpecScript starts with the words.json of SpecStudy;
\* the user selects a table and starts, and frames without input come after
\* 1 or 2 seconds.
ScriptProfile ==
    [times |-> Times({CountdownStep, WordPeriod}),
     group_inputs |-> {},
     table_inputs |-> {},
     texts |-> {},
     writes |-> {"ok"}]

InitScript ==
    /\ StateIs([Default(StudyFile) EXCEPT !.frames = 0])
    /\ call = NoCall
    /\ before = NewFlashMemory
    /\ deleted = {}

NextScript ==
    \/ Idle(ScriptProfile)
    \/ ClickGroup(ScriptProfile)
    \/ ClickTable(ScriptProfile)
    \/ ClickStart(ScriptProfile)

SpecScript == InitScript /\ [][NextScript]_vars

\* Sessions frame by frame: SpecSession starts with a words.json that holds
\* one group with a table of MaxWords words, a table of one word and an empty
\* table.  The user selects, starts, pauses, resumes and ends; frames without
\* input come after 0, 0.5, 1 or 2 seconds; prev records what each frame finds.
SessionStore ==
    [groups |-> MapInsert(<<>>, NewGroupBase,
        <<[name |-> NewTableBase, words |-> [i \in 1..MaxWords |-> StudyWord(i)]],
          [name |-> FormatNameIdx(NewTableBase, 2), words |-> <<StudyWord(1)>>],
          [name |-> FormatNameIdx(NewTableBase, 3), words |-> <<>>]>>)]

SessionFile == Some(to_string_pretty(SessionStore, [write |-> "ok", reversed |-> FALSE]))

InitSession ==
    /\ StateIs([Default(SessionFile) EXCEPT !.prev = Found(Default(SessionFile))])
    /\ call = NoCall
    /\ before = NewFlashMemory
    /\ deleted = {}

NextSession ==
    \/ Idle(StudyProfile)
    \/ ClickGroup(StudyProfile)
    \/ ClickTable(StudyProfile)
    \/ ClickStart(StudyProfile)
    \/ ClickPause(StudyProfile)
    \/ ClickEnd(StudyProfile)

SpecSession == InitSession /\ [][NextSession]_vars

\* A session left alone: SpecPlay is SpecSession until the user leaves, which
\* call records; from then on there is no input, and every frame comes 0.5, 1
\* or 2 seconds after the last.  A frame that polls asks for the next one
\* (ctx.request_repaint()), so while the mode is Started frames keep coming.
PlayProfile ==
    [times |-> Times({1, 2, 4}),
     group_inputs |-> {},
     table_inputs |-> {},
     texts |-> {},
     writes |-> {"ok"}]

Leave ==
    /\ call = NoCall
    /\ ~panicked
    /\ flash_mode = "Started"
    /\ get_current_words(Self) # <<>>
    /\ call' = Called("leave", NoName, NoName, NoName, <<>>, "Ok")
    /\ UNCHANGED flash_memory
    /\ UNCHANGED before
    /\ UNCHANGED deleted
    /\ UNCHANGED app_vars

Poll ==
    /\ call.op = "leave"
    /\ Idle(PlayProfile)

NextPlay ==
    \/ call = NoCall /\ Idle(StudyProfile)
    \/ call = NoCall /\ ClickGroup(StudyProfile)
    \/ call = NoCall /\ ClickTable(StudyProfile)
    \/ call = NoCall /\ ClickStart(StudyProfile)
    \/ call = NoCall /\ ClickPause(StudyProfile)
    \/ call = NoCall /\ ClickEnd(StudyProfile)
    \/ Leave
    \/ Poll

SpecPlay == InitSession /\ [][NextPlay]_vars /\ WF_vars(Poll)

\* The parser on any text: SpecParse starts with any text of MaxText
\* characters at most of letters, spaces, tabs and line ends in
\* word_table_content, or with the text of the specification's example
\* ("cat 猫", an empty line, "dog   跑 步", "noSpaceHere", a line of spaces;
\* M, P and B stand for 猫, 跑 and 步), and calls parse_words_from_text on it.
MaxText == 5

ParseAlphabet == {"a", "b", " ", "\t", "\n"}

ParseExample ==
    <<"c", "a", "t", " ", "M", "\n", "\n",
      "d", "o", "g", " ", " ", " ", "P", " ", "B", "\n",
      "n", "o", "S", "p", "a", "c", "e", "H", "e", "r", "e", "\n",
      " ", " ", " ", "\n">>

ParseTexts == UNION {[1..n -> ParseAlphabet] : n \in 0..MaxText} \cup {ParseExample}

InitParse ==
    /\ \E text \in ParseTexts :
           StateIs([Default(None) EXCEPT !.word_table_content = text])
    /\ call = NoCall
    /\ before = NewFlashMemory
    /\ deleted = {}

CallParseWordsFromText ==
    \E g \in GroupArgs :
        /\ call = NoCall
        /\ call' = Called("parse_words_from_text", g, NoName, NoName,
                          parse_words_from_text(word_table_content, g), "Ok")
        /\ before' = flash_memory
        /\ UNCHANGED flash_memory
        /\ UNCHANGED deleted
        /\ UNCHANGED app_vars

NextParse ==
    \/ CallParseWordsFromText
    \/ Return

SpecParse == InitParse /\ [][NextParse]_vars

\* The editor on long texts: SpecCap starts with a words.json that holds one
\* group with one table of one word.  The user opens the table in the editor,
\* puts a text of MaxTextLines lines at most in it and saves; prev records
\* what each frame finds.  Line i of CapText(k, n), a text of n lines, is
\* "i x" from line k on and "i", which gives no word, before.
MaxTextLines == 150

CapLine(k, i) == IF i >= k THEN ToDec(i) \o <<" ", "x">> ELSE ToDec(i)

CapText(k, n) == Join([i \in 1..n |-> CapLine(k, i)], <<"\n">>)

CapTexts ==
    {CapText(k, n) : k \in {1, MaxLines + 1},
                     n \in {MaxLines - 1, MaxLines, MaxLines + 1, MaxTextLines}}

CapStore ==
    [groups |-> MapInsert(<<>>, NewGroupBase,
        <<[name |-> NewTableBase, words |-> <<StudyWord(1)>>]>>)]

CapFile == Some(to_string_pretty(CapStore, [write |-> "ok", reversed |-> FALSE]))

CapProfile ==
    [times |-> Times({0}),
     group_inputs |-> {},
     table_inputs |-> {},
     texts |-> CapTexts,
     writes |-> {"ok"}]

InitCap ==
    /\ StateIs([Default(CapFile) EXCEPT !.prev = Found(Default(CapFile))])
    /\ call = NoCall
    /\ before = NewFlashMemory
    /\ deleted = {}

NextCap ==
    \/ Idle(CapProfile)
    \/ ClickGroup(CapProfile)
    \/ RightClickTable(CapProfile)
    \/ MenuModify(CapProfile)
    \/ EditorType(CapProfile)
    \/ EditorBack(CapProfile)
    \/ EditorSave(CapProfile)

SpecCap == InitCap /\ [][NextCap]_vars

\* The editor opened again: SpecRefill starts with a words.json that holds one
\* group with one table without words, so every word of the table is one an
\* editor save has stored.  The user has opened the table in the editor and
\* has put in it any text of MaxText characters at most of letters, spaces,
\* tabs and line ends; from there the user saves, goes back, and opens the
\* table again without typing; prev records what each frame finds.
RefillStore ==
    [groups |-> MapInsert(<<>>, NewGroupBase, <<[name |-> NewTableBase, words |-> <<>>]>>)]

RefillFile == Some(to_string_pretty(RefillStore, [write |-> "ok", reversed |-> FALSE]))

RefillProfile ==
    [times |-> Times({0}),
     group_inputs |-> {},
     table_inputs |-> {},
     texts |-> {},
     writes |-> {"ok"}]

\* the editor as the menu opens it on the table
RefillOpened ==
    [menu_modify(right_click_table(click_group(Default(RefillFile), NewGroupBase),
                                   NewGroupBase, NewTableBase))
        EXCEPT !.shown = Shown("editor", FALSE)]

InitRefill ==
    /\ \E text \in ParseTexts :
           StateIs([RefillOpened EXCEPT !.word_table_content = text,
                                        !.event = "editor_type",
                                        !.prev = Found(RefillOpened)])
    /\ call = NoCall
    /\ before = NewFlashMemory
    /\ deleted = {}

NextRefill ==
    \/ Idle(RefillProfile)
    \/ ClickGroup(RefillProfile)
    \/ RightClickTable(RefillProfile)
    \/ MenuModify(RefillProfile)
    \/ EditorBack(RefillProfile)
    \/ EditorSave(RefillProfile)

SpecRefill == InitRefill /\ [][NextRefill]_vars

\* The snapshot written and read back: SpecSnapshot starts with any store of
\* MaxSnapshotGroups groups at most, whose names, table lists and words hold
\* quotes, backslashes and line ends.  save_to_file writes words.json (the
\* write may fail), and the program is started again, which loads the file;
\* prev records the store as the save found it.
MaxSnapshotGroups == 2

SnapshotNames == {<<"g">>, <<"\"", "h">>, <<"\\", "n">>}

SnapshotWords ==
    <<[english |-> <<"a", "\"">>, chinese |-> <<"x", " ", "\\">>, group |-> <<"g">>],
      [english |-> <<"\\", "t">>, chinese |-> <<"\n", "\t">>, group |-> <<"\"", "h">>]>>

SnapshotTableLists ==
    {<<>>,
     <<[name |-> <<"T">>, words |-> <<>>]>>,
     <<[name |-> <<"\\", "\"">>, words |-> SnapshotWords]>>,
     <<[name |-> <<"T">>, words |-> SubSeq(SnapshotWords, 2, 2)],
       [name |-> <<"\r">>, words |-> <<>>]>>,
     <<[name |-> <<"T">>, words |-> SnapshotWords],
       [name |-> <<"T">>, words |-> SubSeq(SnapshotWords, 1, 1)]>>}

SnapshotStores ==
    {[groups |-> m] :
        m \in UNION {[N -> SnapshotTableLists] :
                         N \in {M \in SUBSET SnapshotNames :
                                    Cardinality(M) <= MaxSnapshotGroups}}}

SnapshotProfile ==
    [times |-> Times({0}),
     group_inputs |-> {},
     table_inputs |-> {},
     texts |-> {},
     writes |-> {"ok", "create_failed", "write_failed"}]

InitSnapshot ==
    /\ \E x \in SnapshotStores :
           StateIs([Default(None) EXCEPT !.flash_memory = x,
                                         !.prev = Found([Default(None) EXCEPT
                                                             !.flash_memory = x])])
    /\ call = NoCall
    /\ before = NewFlashMemory
    /\ deleted = {}

\* flash_memory.save_to_file("words.json")
CallSaveToFile ==
    \E io \in IoChoices(SnapshotProfile) :
        Commit(end_frame(save_to_file([Self EXCEPT !.event = "save_to_file",
                                                   !.save_result = "none",
                                                   !.store_result = "none",
                                                   !.prev = Found(Self)], io)))

\* the program is started again: FlashMemoryApp::default() loads words.json
Restart ==
    Commit([Default(words_json) EXCEPT !.event = "load_from_file",
                                       !.io_faults = io_faults,
                                       !.prev = prev])

NextSnapshot ==
    \/ CallSaveToFile
    \/ Restart

SpecSnapshot == InitSnapshot /\ [][NextSnapshot]_vars

\* -------------------------------------------- the properties of the store
\* the tables of a list have names of their own
UniqueNames(tables) ==
    \A i, j \in DOMAIN tables : tables[i].name = tables[j].name => i = j

\* every group but g is in the store as it was before the call
OthersUnchanged(g) ==
    \A h \in get_groups(before) \ {g} :
        HasGroup(flash_memory, h) /\ flash_memory.groups[h] = before.groups[h]

\* C1: starting from the empty store, after any calls of create_word_table,
\* rename_word_table, rename_group, delete_word_table, delete_group and
\* add_words_to_table, failed or not, no group holds two tables of one name.
C1_UniqueTableNames ==
    \A g \in get_groups(flash_memory) : UniqueNames(flash_memory.groups[g])

\* a table has got a new name in a group of two tables or more
C1_Witness ==
    /\ call.op = "rename_word_table"
    /\ call.res = "Ok"
    /\ call.a # call.b
    /\ Len(flash_memory.groups[call.group]) >= 2

\* C6: rename_group(old, new) with old # new and new a group, and
\* rename_word_table(group, old, new) with old # new and new the name of a
\* table of the group, return an error and leave the whole store as it was.
C6_RenameToSiblingFails ==
    /\ (call.op = "rename_group" /\ call.a # call.b /\ HasGroup(before, call.b))
           => (call.res # "Ok" /\ flash_memory = before)
    /\ (/\ call.op = "rename_word_table"
        /\ call.a # call.b
        /\ HasGroup(before, call.group)
        /\ AnyNamed(before.groups[call.group], call.b))
           => (call.res # "Ok" /\ flash_memory = before)

\* a table was to take the name of another table of its group
C6_Witness ==
    /\ call.op = "rename_word_table"
    /\ call.a # call.b
    /\ HasGroup(before, call.group)
    /\ AnyNamed(before.groups[call.group], call.a)
    /\ AnyNamed(before.groups[call.group], call.b)
    /\ call.res = "ErrTableNameExists"

\* C7: rename_group(g, g) and rename_word_table(grp, t, t) return Ok and
\* leave the store as it was, whether g, grp and t are in the store or not.
C7_RenameToSelfIsNoOp ==
    (call.op \in {"rename_group", "rename_word_table"} /\ call.a = call.b)
        => (call.res = "Ok" /\ flash_memory = before)

\* a table was renamed to its own name in a group the store does not hold
C7_Witness ==
    /\ call.op = "rename_word_table"
    /\ call.a = call.b
    /\ ~HasGroup(before, call.group)
    /\ get_groups(before) # {}
    /\ call.res = "Ok"

\* C8: create_word_table(group, desired) does not fail; it adds one empty
\* table at the end of the group's list, named desired if no table of the
\* group has that name, else desired followed by the least K >= 2 that gives
\* an unused name; the tables there were and the other groups are unchanged.
C8_CreateAppendsUnusedName ==
    call.op = "create_word_table" =>
        LET old == IF HasGroup(before, call.group) THEN before.groups[call.group] ELSE <<>>
            new == flash_memory.groups[call.group]
            added == new[Len(new)]
        IN /\ call.res = "Ok"
           /\ HasGroup(flash_memory, call.group)
           /\ Len(new) = Len(old) + 1
           /\ SubSeq(new, 1, Len(old)) = old
           /\ added.words = <<>>
           /\ IF ~AnyNamed(old, call.a) THEN added.name = call.a
              ELSE \E K \in 2..(Len(old) + 2) :
                      /\ added.name = FormatNameIdx(call.a, K)
                      /\ ~AnyNamed(old, added.name)
                      /\ \A J \in 2..(K - 1) : AnyNamed(old, FormatNameIdx(call.a, J))
           /\ OthersUnchanged(call.group)
           /\ get_groups(flash_memory) = get_groups(before) \cup {call.group}

\* with T and T2 in the group, the new table is T3
C8_Witness ==
    /\ call.op = "create_word_table"
    /\ call.a = <<"T">>
    /\ HasGroup(before, call.group)
    /\ AnyNamed(before.groups[call.group], <<"T">>)
    /\ AnyNamed(before.groups[call.group], <<"T", "2">>)
    /\ flash_memory.groups[call.group][Len(flash_memory.groups[call.group])].name
           = <<"T", "3">>

\* the calls that address a table of a group
TableCalls ==
    {"get_word_tables_in_group", "rename_word_table", "delete_word_table",
     "add_words_to_table"}

\* C9, as the code has it: after delete_group(g) has returned Ok, g is no
\* group of the store and every other group is as it was; and as long as g
\* has not come back, get_word_tables_in_group, rename_word_table to another
\* name, delete_word_table and add_words_to_table on g report that the group
\* is missing and leave the store as it was.
C9_DeletedGroupIsGone ==
    /\ (call.op = "delete_group" /\ call.res = "Ok")
           => /\ ~HasGroup(flash_memory, call.group)
              /\ OthersUnchanged(call.group)
              /\ get_groups(flash_memory) \subseteq get_groups(before)
    /\ (/\ call.op \in TableCalls
        /\ call.group \in deleted
        /\ call.op = "rename_word_table" => call.a # call.b)
           => (call.res \in {"None", "ErrGroupMissing"} /\ flash_memory = before)

\* a table of a deleted group was to be deleted
C9_Witness ==
    /\ call.op = "delete_word_table"
    /\ call.group \in deleted
    /\ get_groups(flash_memory) # {}
    /\ call.res = "ErrGroupMissing"

\* C9 as the specification states it: every rename_word_table on a deleted
\* group reports not-found, also the one to the same name.
C9_AsStated ==
    /\ (call.op = "delete_group" /\ call.res = "Ok")
           => /\ ~HasGroup(flash_memory, call.group)
              /\ OthersUnchanged(call.group)
              /\ get_groups(flash_memory) \subseteq get_groups(before)
    /\ (call.op \in TableCalls /\ call.group \in deleted)
           => (call.res \in {"None", "ErrGroupMissing"} /\ flash_memory = before)

\* C10: a call that returns an error because the group or the table it names
\* is not in the store (rename_group, rename_word_table, delete_group,
\* delete_word_table, add_words_to_table) leaves the store as it was.
C10_NotFoundChangesNothing ==
    call.res \in {"ErrOldGroupMissing", "ErrTableMissing", "ErrGroupMissing"}
        => flash_memory = before

\* words were to go to a table its group does not hold, beside other tables
C10_Witness ==
    /\ call.op = "add_words_to_table"
    /\ call.res = "ErrTableMissing"
    /\ HasGroup(before, call.group)
    /\ before.groups[call.group] # <<>>

\* C23: add_words_to_table(group, name, words) that returns Ok leaves the
\* table of that name with exactly the words supplied (those it had are gone,
\* nothing is appended or merged) and with its name, and leaves every other
\* table of the group and every other group as they were.
C23_AddWordsOverwrites ==
    (call.op = "add_words_to_table" /\ call.res = "Ok") =>
        /\ HasGroup(before, call.group)
        /\ AnyNamed(before.groups[call.group], call.a)
        /\ get_groups(flash_memory) = get_groups(before)
        /\ Len(flash_memory.groups[call.group]) = Len(before.groups[call.group])
        /\ \A i \in DOMAIN before.groups[call.group] :
               IF i = Position(before.groups[call.group], call.a)
               THEN /\ flash_memory.groups[call.group][i].words = call.words
                    /\ flash_memory.groups[call.group][i].name = call.a
               ELSE flash_memory.groups[call.group][i] = before.groups[call.group][i]
        /\ OthersUnchanged(call.group)

\* a table of two words, the second of two tables of its group, has got one
\* word in their place, while the other table and the other group hold words
C23_Witness ==
    /\ call.op = "add_words_to_table"
    /\ call.res = "Ok"
    /\ call.words = <<WordA>>
    /\ Len(before.groups[call.group]) = 2
    /\ Position(before.groups[call.group], call.a) = 2
    /\ before.groups[call.group][2].words = <<WordB, WordA>>
    /\ before.groups[call.group][1].words # <<>>
    /\ \E h \in get_groups(before) \ {call.group} :
           before.groups[h] # <<>> /\ before.groups[h][1].words # <<>>

\* C24: rename_group(old, new) with old # new that returns Ok leaves new
\* with exactly the list of tables old had (the same tables in the same order
\* with the same words), leaves the store without the key old and every other
\* group as it was; the store has as many groups as before.
C24_RenameGroupMovesTables ==
    (call.op = "rename_group" /\ call.res = "Ok" /\ call.a # call.b) =>
        /\ HasGroup(before, call.a)
        /\ HasGroup(flash_memory, call.b)
        /\ flash_memory.groups[call.b] = before.groups[call.a]
        /\ ~HasGroup(flash_memory, call.a)
        /\ OthersUnchanged(call.a)
        /\ get_groups(flash_memory) = (get_groups(before) \ {call.a}) \cup {call.b}
        /\ Cardinality(get_groups(flash_memory)) = Cardinality(get_groups(before))

\* a group of two tables, one with words, has got a new name beside another
\* group, which holds a table with words
C24_Witness ==
    /\ call.op = "rename_group"
    /\ call.res = "Ok"
    /\ call.a # call.b
    /\ Cardinality(get_groups(before)) = 2
    /\ Len(before.groups[call.a]) = 2
    /\ before.groups[call.a][2].words # <<>>
    /\ \E h \in get_groups(before) \ {call.a} :
           before.groups[h] # <<>> /\ before.groups[h][1].words # <<>>

\* C25: delete_word_table(group, name) that returns Ok removes exactly the
\* table of that name from the group: the other tables of the group are
\* there with their names and words and in the order they had, no table of
\* that name is left, and every other group is as it was.
C25_DeleteTableRemovesOne ==
    (call.op = "delete_word_table" /\ call.res = "Ok") =>
        /\ HasGroup(before, call.group)
        /\ AnyNamed(before.groups[call.group], call.a)
        /\ get_groups(flash_memory) = get_groups(before)
        /\ Len(flash_memory.groups[call.group]) = Len(before.groups[call.group]) - 1
        /\ \E p \in DOMAIN before.groups[call.group] :
               /\ before.groups[call.group][p].name = call.a
               /\ \A i \in DOMAIN flash_memory.groups[call.group] :
                      flash_memory.groups[call.group][i]
                          = before.groups[call.group][IF i < p THEN i ELSE i + 1]
        /\ ~AnyNamed(flash_memory.groups[call.group], call.a)
        /\ OthersUnchanged(call.group)

\* the first of the three tables of a group is deleted; the two that stay
\* differ, and one of them holds words
C25_Witness ==
    /\ call.op = "delete_word_table"
    /\ call.res = "Ok"
    /\ Len(before.groups[call.group]) = 3
    /\ before.groups[call.group][1].name = call.a
    /\ before.groups[call.group][3].words # <<>>
    /\ flash_memory.groups[call.group]
           = <<before.groups[call.group][2], before.groups[call.group][3]>>

\* ------------------------------------------- the properties of the frames
\* C2: the update loop never panics: whenever the study view renders a word
\* (the mode is Started or Paused, countdown_remaining is 0 and the selected
\* table has words), flash_index is less than the number of words of the
\* selected table.
C2_IndexInRange ==
    /\ ~panicked
    /\ (/\ flash_mode \in {"Started", "Paused"}
        /\ countdown_remaining = 0
        /\ ~IsSome(editing_word_table)
        /\ get_current_words(Self) # <<>>)
           => flash_index < Len(get_current_words(Self))

\* the polls since the start are those of the countdown, CountdownStep each,
\* and then k of WordPeriod each
ScriptOf(k) ==
    polls = [i \in 1..(CountdownStart + k) |->
                IF i <= CountdownStart THEN CountdownStep ELSE WordPeriod]

\* C3: on a table of n >= 1 words, three polls of 1 second after the start
\* end the countdown at flash_index 0; each poll of 2 seconds that follows
\* moves flash_index on by one while words remain; the n-th one ends the
\* session in Preview with flash_index n - 1, where it stays.
C3_SessionScript ==
    \A k \in 0..MaxFrames :
        (ScriptOf(k) /\ get_current_words(Self) # <<>>) =>
            LET n == Len(get_current_words(Self)) IN
            /\ countdown_remaining = 0
            /\ IF k < n THEN flash_mode = "Started" /\ flash_index = k
               ELSE flash_mode = "Preview" /\ flash_index = n - 1

\* the session of the table of MaxWords words has run to its end
C3_Witness ==
    /\ ScriptOf(MaxWords)
    /\ Len(get_current_words(Self)) = MaxWords
    /\ flash_mode = "Preview"
    /\ flash_index = MaxWords - 1

\* C4: when the save of a frame fails, the message the frame leaves is the
\* one that reports that the save failed.
C4_SaveFailureReported ==
    save_result = "failed" => message = MsgSaveFailedIo

\* C5: a frame whose FlashMemory call has changed the store with Ok saves in
\* that frame, and when the save succeeds words.json holds the store as it
\* is at the end of the frame.
C5_SavedInTheSameFrame ==
    store_result = "Ok" =>
        /\ save_result # "none"
        /\ save_result = "ok" =>
               \E r \in BOOLEAN :
                   words_json = Some(to_string_pretty(flash_memory,
                                                      [write |-> "ok", reversed |-> r]))

\* a table is deleted and saved after an earlier save has failed
C5_Witness ==
    /\ event = "menu_delete_table"
    /\ store_result = "Ok"
    /\ save_result = "ok"
    /\ io_faults = MaxIoFaults
    /\ get_groups(flash_memory) # {}

\* ------------------------------------------ the properties of the session
\* the fields of the session are as the frame found them
SessionUnchanged ==
    /\ flash_index = prev.flash_index
    /\ flash_timer = prev.flash_timer
    /\ countdown_remaining = prev.countdown_remaining
    /\ countdown_timer = prev.countdown_timer

\* C11: a click on start in Preview while the selected table has no words, or
\* while no table is selected, leaves the mode Preview and the fields of the
\* session as they were, and sets the message of the rejection, which the
\* panel shows.
C11_EmptyStartRejected ==
    (event = "start" /\ prev.flash_mode = "Preview" /\ get_current_words(Self) = <<>>)
        => /\ flash_mode = "Preview"
           /\ SessionUnchanged
           /\ message = <<"MsgEmptyTable">>
           /\ message_shown(Self)

\* C12: a frame that finds the mode Paused and leaves it Paused reads no
\* clock and leaves flash_index, countdown_remaining, countdown_timer and
\* flash_timer as they were; the frame of the resume writes last_tick before
\* its poll, which so measures no time and changes none of the four, and the
\* time of the pause is in no later dt.
C12_PausedTimeIsNotCounted ==
    /\ (prev.flash_mode = "Paused" /\ flash_mode = "Paused")
           => (SessionUnchanged /\ prev.dt = NoPoll)
    /\ (prev.flash_mode = "Paused" /\ event = "pause")
           => /\ flash_mode = "Started"
              /\ SessionUnchanged
              /\ prev.dt \in {NoPoll, 0}
              /\ since_tick = 0

\* a session resumes after two seconds or more of pause, in the middle of a
\* word
C12_Witness ==
    /\ prev.flash_mode = "Paused"
    /\ event = "pause"
    /\ prev.since_tick = WordPeriod
    /\ prev.dt = 0
    /\ countdown_remaining = 0
    /\ flash_timer > 0

\* the frame found the mode Started and its poll has read the clock
Polling == prev.flash_mode = "Started" /\ prev.dt # NoPoll

\* C13: a poll that finds countdown_remaining = 0 and brings flash_timer to
\* two seconds or more leaves flash_timer 0 and either flash_index greater by
\* one (when flash_index + 1 is less than the number of words) or, on the
\* last word, the mode Preview, the message that the session is complete and
\* flash_index as it was; from frame to frame of a session flash_index does
\* not decrease, so it does not return to 0 after it has left it.
C13_AdvanceOrFinish ==
    /\ (Polling /\ prev.countdown_remaining = 0 /\ prev.flash_timer + prev.dt >= WordPeriod)
           => /\ flash_timer = 0
              /\ IF prev.flash_index + 1 < Len(get_current_words(Self))
                 THEN flash_index = prev.flash_index + 1 /\ flash_mode = "Started"
                 ELSE /\ flash_index = prev.flash_index
                      /\ flash_mode = "Preview"
                      /\ message = <<"MsgFinished">>
    /\ (prev.flash_mode \in {"Started", "Paused"} /\ flash_mode # "Preview")
           => flash_index >= prev.flash_index
    /\ (Polling /\ flash_mode = "Preview") => flash_index = prev.flash_index

\* the last word of the table of MaxWords words has had its two seconds, the
\* last of them in a frame that came late
C13_Witness ==
    /\ Polling
    /\ prev.countdown_remaining = 0
    /\ prev.flash_timer + prev.dt > WordPeriod
    /\ prev.flash_index = MaxWords - 1
    /\ flash_index = MaxWords - 1
    /\ flash_mode = "Preview"

\* C15: a poll that finds countdown_remaining > 0 adds dt to countdown_timer
\* and, when the sum is a second or more, takes exactly 1 off
\* countdown_remaining and sets countdown_timer to 0, whatever dt is;
\* flash_index and flash_timer stay 0 while the countdown runs, and
\* flash_timer is 0 in the poll that brings countdown_remaining to 0.
C15_CountdownStep ==
    /\ (Polling /\ prev.countdown_remaining > 0)
           => /\ IF prev.countdown_timer + prev.dt >= CountdownStep
                 THEN /\ countdown_remaining = prev.countdown_remaining - 1
                      /\ countdown_timer = 0
                 ELSE /\ countdown_remaining = prev.countdown_remaining
                      /\ countdown_timer = prev.countdown_timer + prev.dt
              /\ flash_index = prev.flash_index
              /\ flash_timer = 0
    /\ (flash_mode # "Preview" /\ countdown_remaining > 0)
           => (flash_index = 0 /\ flash_timer = 0)

\* a poll that comes two seconds after the start takes one second off
C15_Witness ==
    /\ Polling
    /\ prev.countdown_remaining = CountdownStart
    /\ prev.dt >= 2 * CountdownStep
    /\ countdown_remaining = CountdownStart - 1
    /\ countdown_timer = 0

\* C16: a click on start in Preview with a selected table that has words
\* leaves the mode Started, flash_index 0, countdown_remaining 3,
\* countdown_timer 0 and flash_timer 0, whatever the last session has left.
C16_StartResets ==
    (event = "start" /\ prev.flash_mode = "Preview" /\ get_current_words(Self) # <<>>)
        => /\ flash_mode = "Started"
           /\ flash_index = 0
           /\ countdown_remaining = CountdownStart
           /\ countdown_timer = 0
           /\ flash_timer = 0

\* a session starts after one that has run to its last word
C16_Witness ==
    /\ event = "start"
    /\ prev.flash_mode = "Preview"
    /\ prev.flash_index = MaxWords - 1
    /\ prev.message = <<"MsgFinished">>
    /\ flash_mode = "Started"

\* C17: a click on end in Started or in Paused leaves the mode Preview and
\* flash_index, countdown_remaining, countdown_timer and flash_timer at the
\* values of FlashMemoryApp::default(), and leaves the store and the selected
\* group and table as they were.
C17_EndResets ==
    (event = "end" /\ prev.flash_mode \in {"Started", "Paused"})
        => /\ flash_mode = "Preview"
           /\ flash_index = Default(None).flash_index
           /\ countdown_remaining = Default(None).countdown_remaining
           /\ countdown_timer = Default(None).countdown_timer
           /\ flash_timer = Default(None).flash_timer
           /\ flash_memory = prev.flash_memory
           /\ current_group = prev.current_group
           /\ current_word_table = prev.current_word_table

\* a paused session is ended in the middle of its second word
C17_Witness ==
    /\ event = "end"
    /\ prev.flash_mode = "Paused"
    /\ prev.flash_index = 1
    /\ prev.flash_timer > 0
    /\ IsSome(current_word_table)
    /\ flash_mode = "Preview"

\* C14: in every state of a session (the mode is Started or Paused) the
\* chinese form of the current word is shown if and only if
\* countdown_remaining = 0 and flash_timer is a second or more; it is not
\* shown while the countdown runs, and the english form is shown in every
\* state of a session with countdown_remaining = 0.
C14_MeaningAfterASecond ==
    flash_mode \in {"Started", "Paused"} =>
        /\ (shown.card = "word" /\ shown.meaning)
               <=> (countdown_remaining = 0 /\ flash_timer >= RevealAfter)
        /\ countdown_remaining > 0 => ~shown.meaning
        /\ countdown_remaining = 0 => shown.card = "word"

\* the poll of the frame has ended the session on its last word
Completed ==
    /\ Polling
    /\ prev.countdown_remaining = 0
    /\ message = <<"MsgFinished">>

\* C31: a frame changes the mode only from Preview to Started (start), from
\* Started to Paused (pause), from Paused to Started (resume), from Started to
\* Preview (end, or the poll that ends the last word) and from Paused to
\* Preview (end); countdown_remaining is in 0..3 in every state, and greater
\* than 0 only in the modes Started and Paused.
C31_ModeTransitions ==
    /\ prev.flash_mode # flash_mode
           => \/ prev.flash_mode = "Preview" /\ flash_mode = "Started" /\ event = "start"
              \/ prev.flash_mode = "Started" /\ flash_mode = "Paused" /\ event = "pause"
              \/ prev.flash_mode = "Paused" /\ flash_mode = "Started" /\ event = "pause"
              \/ prev.flash_mode = "Started" /\ flash_mode = "Preview"
                     /\ (event = "end" \/ Completed)
              \/ prev.flash_mode = "Paused" /\ flash_mode = "Preview" /\ event = "end"
    /\ countdown_remaining \in 0..CountdownStart
    /\ countdown_remaining > 0 => flash_mode \in {"Started", "Paused"}

\* a session paused in its countdown has been ended
C31_Witness ==
    /\ event = "end"
    /\ prev.flash_mode = "Paused"
    /\ prev.countdown_remaining > 0
    /\ flash_mode = "Preview"
    /\ countdown_remaining = 0

\* the user has left a running session on a table that has words
LeftStarted ==
    /\ call.op = "leave"
    /\ ~panicked
    /\ flash_mode = "Started"
    /\ get_current_words(Self) # <<>>

\* word k of the selected table, when it is still to come, gets shown
ShowsWord(k) ==
    (LeftStarted /\ flash_index <= k /\ k < Len(get_current_words(Self)))
        ~> (shown.card = "word" /\ flash_index = k)

\* C30: once the user has left a session in the mode Started on a table that
\* has words, and frames keep coming with time between them, every word from
\* flash_index on gets shown and the mode gets back to Preview: the session
\* does not stay Started for ever.
C30_SessionEnds ==
    /\ LeftStarted ~> (flash_mode = "Preview")
    /\ \A k \in 0..(MaxWords - 1) : ShowsWord(k)

\* the session of the table of MaxWords words, left during its countdown, has
\* run to its end
C30_Witness ==
    /\ call.op = "leave"
    /\ Polling
    /\ prev.flash_index = MaxWords - 1
    /\ Len(get_current_words(Self)) = MaxWords
    /\ flash_mode = "Preview"
    /\ message = <<"MsgFinished">>

\* --------------------------------------- the properties of the selection
\* C18: a frame that makes another group the current group leaves no table
\* selected.
C18_GroupChangeClearsTable ==
    [][(IsSome(current_group') /\ current_group' # current_group)
           => current_word_table' = None]_vars

\* C28: starting without words.json, in every state the selection names
\* what the store holds: current_group, when set, is a group of the store;
\* current_word_table, when set, is the name of a table of current_group, and
\* it is set only when current_group is set.
C28_SelectionNeverDangles ==
    /\ IsSome(current_group) => HasGroup(flash_memory, Unwrap(current_group))
    /\ IsSome(current_word_table) =>
           /\ IsSome(current_group)
           /\ HasGroup(flash_memory, Unwrap(current_group))
           /\ AnyNamed(flash_memory.groups[Unwrap(current_group)],
                       Unwrap(current_word_table))

\* C29: after the menu item that creates a word table in a group, the table
\* selected and put into the rename text box is the table just created, the
\* last of the group's list: current_word_table and the text of the box are
\* its name, also when the name has got a number because the group held a
\* table of the default name.
C29_NewTableIsSelected ==
    (event = "menu_new_word_table" /\ store_result = "Ok") =>
        LET tables == flash_memory.groups[Unwrap(current_group)] IN
        /\ current_word_table = Some(tables[Len(tables)].name)
        /\ renaming_word_table_active
        /\ renaming_word_table_input = tables[Len(tables)].name

\* ------------------------------------------- the properties of the parser
\* a line that gives a word: after trimming it is not blank and holds a space
IsWordLine(line) == Trim(line) # <<>> /\ \E j \in DOMAIN Trim(line) : Trim(line)[j] = " "

\* the indices of the lines that give a word, in their order
WordLines(lines) == SelectSeq([i \in 1..Len(lines) |-> i], LAMBDA i : IsWordLine(lines[i]))

\* the part of the trimmed line before its first space, and the part after it
BeforeFirstSpace(line) == SubSeq(Trim(line), 1, Find(Trim(line), " ") - 1)

AfterFirstSpace(line) == SubSeq(Trim(line), Find(Trim(line), " ") + 1, Len(Trim(line)))

\* words is, in the order of the lines, one word for each of WordLines, its
\* english form and its chinese form being what English(_) and Chinese(_)
\* make of the line
OneWordPerLine(words, lines, group, English(_), Chinese(_)) ==
    With(lines, LAMBDA ls : With(WordLines(ls), LAMBDA at :
        /\ Len(words) = Len(at)
        /\ \A k \in DOMAIN words :
               words[k] = [english |-> English(ls[at[k]]),
                           chinese |-> Chinese(ls[at[k]]),
                           group |-> group]))

\* C19, as the code has it: parse_words_from_text(text, group) returns, in
\* the order of the lines, exactly one word for each line that after
\* trimming is not blank and holds a space: its english form is the trimmed
\* part before the first space, its chinese form the trimmed part after it
\* (the spaces inside it kept), its group the group supplied; blank lines and
\* lines without a space give nothing.
C19_OneWordPerLineWithASpace ==
    call.op = "parse_words_from_text" =>
        OneWordPerLine(call.words, Lines(word_table_content), call.group,
                       LAMBDA line : Trim(BeforeFirstSpace(line)),
                       LAMBDA line : Trim(AfterFirstSpace(line)))

\* the example of the specification gives its two words
C19_Witness ==
    /\ call.op = "parse_words_from_text"
    /\ word_table_content = ParseExample
    /\ call.words = <<[english |-> <<"c", "a", "t">>, chinese |-> <<"M">>,
                       group |-> call.group],
                      [english |-> <<"d", "o", "g">>, chinese |-> <<"P", " ", "B">>,
                       group |-> call.group]>>

\* C19 as the specification states it: the english form is the part before
\* the first space as it stands.
C19_AsStated ==
    call.op = "parse_words_from_text" =>
        OneWordPerLine(call.words, Lines(word_table_content), call.group,
                       LAMBDA line : BeforeFirstSpace(line),
                       LAMBDA line : Trim(AfterFirstSpace(line)))

\* the words of table table_name of group, which the store holds
TableWords(fm, group, table_name) ==
    fm.groups[group][Position(fm.groups[group], table_name)].words

\* the first MaxLines of the lines
FirstLines(lines) == [i \in 1..(IF Len(lines) < MaxLines THEN Len(lines) ELSE MaxLines) |-> lines[i]]

\* C20: the save of the editor reads the first 100 lines of the text only:
\* when one of them gives a word, the table holds after the save exactly the
\* words of these lines, in their order, and else the words it held before;
\* of a text of MaxTextLines lines that all give a word it holds the 100
\* words of lines 1 to 100.
C20_OnlyTheFirstLinesAreSaved ==
    (event = "editor_save" /\ IsSome(prev.editing_word_table)) =>
        With(FirstLines(Lines(prev.word_table_content)), LAMBDA first :
            LET group == Unwrap(prev.editing_word_table)[1]
                table_name == Unwrap(prev.editing_word_table)[2]
            IN /\ IF WordLines(first) = <<>>
                  THEN TableWords(flash_memory, group, table_name)
                           = TableWords(prev.flash_memory, group, table_name)
                  ELSE OneWordPerLine(TableWords(flash_memory, group, table_name),
                                      first, group,
                                      LAMBDA line : Trim(BeforeFirstSpace(line)),
                                      LAMBDA line : Trim(AfterFirstSpace(line)))
               /\ prev.word_table_content = CapText(1, MaxTextLines)
                      => /\ Len(TableWords(flash_memory, group, table_name)) = MaxLines
                         /\ \A i \in 1..MaxLines :
                                TableWords(flash_memory, group, table_name)[i].english
                                    = ToDec(i))

\* a text of MaxTextLines lines that all give a word has been saved
C20_Witness ==
    /\ event = "editor_save"
    /\ prev.word_table_content = CapText(1, MaxTextLines)
    /\ message = <<"MsgSaved", ToString(MaxLines)>>
    /\ Len(TableWords(flash_memory, NewGroupBase, NewTableBase)) = MaxLines

\* ------------------------------------------- the properties of the editor
\* C21: a save of the editor on a text of more than 100 lines leaves as the
\* message the warning that only the first 100 lines were saved.
C21_TruncationWarned ==
    (/\ event = "editor_save"
     /\ IsSome(prev.editing_word_table)
     /\ Len(Lines(prev.word_table_content)) > MaxLines)
        => message = <<"MsgOver100">>

\* ----------------------------------------- the properties of the snapshot
\* the file words.json is what save_to_file writes of the store fm, its
\* groups in one order or the other
SnapshotOf(fm) ==
    \E r \in BOOLEAN :
        words_json = Some(to_string_pretty(fm, [write |-> "ok", reversed |-> r]))

\* C22: loading the snapshot that save_to_file has written of a store gives
\* a store equal to it: the same groups, the same tables of each group with
\* their names and their order, the same words of each table in their order
\* with their english, chinese and group fields.
C22_LoadOfSaveIsTheStore ==
    (event = "load_from_file" /\ SnapshotOf(prev.flash_memory))
        => /\ flash_memory = prev.flash_memory
           /\ get_groups(flash_memory) = get_groups(prev.flash_memory)
           /\ \A g \in get_groups(prev.flash_memory) :
                  /\ Len(flash_memory.groups[g]) = Len(prev.flash_memory.groups[g])
                  /\ \A i \in DOMAIN prev.flash_memory.groups[g] :
                         /\ flash_memory.groups[g][i].name
                                = prev.flash_memory.groups[g][i].name
                         /\ flash_memory.groups[g][i].words
                                = prev.flash_memory.groups[g][i].words

\* a store of two groups with quotes, backslashes and line ends in its names
\* and words was written with its groups in the other order and read back
C22_Witness ==
    /\ event = "load_from_file"
    /\ SnapshotOf(prev.flash_memory)
    /\ words_json # Some(to_string_pretty(prev.flash_memory,
                                          [write |-> "ok", reversed |-> FALSE]))
    /\ get_groups(flash_memory) = {<<"\"", "h">>, <<"\\", "n">>}
    /\ flash_memory.groups[<<"\\", "n">>]
           = <<[name |-> <<"\\", "\"">>, words |-> SnapshotWords]>>
    /\ Len(flash_memory.groups[<<"\"", "h">>]) = 2

\* ------------------------------------------- the properties of the names
\* C27: a frame that confirms the rename of a group or of a table with an
\* input that is blank when trimmed leaves the store as it was, saves
\* nothing, sets a message, which the panel shows, and ends the rename.
C27_BlankNameRejected ==
    /\ (event = "confirm_group_rename" /\ Trim(renaming_input) = <<>>)
           => /\ flash_memory = prev.flash_memory
              /\ store_result = "none"
              /\ save_result = "none"
              /\ message = <<"MsgGroupNameEmpty">>
              /\ message_shown(Self)
              /\ ~renaming_group_active
    /\ (event = "confirm_table_rename" /\ Trim(renaming_word_table_input) = <<>>)
           => /\ flash_memory = prev.flash_memory
              /\ store_result = "none"
              /\ save_result = "none"
              /\ message = <<"MsgTableNameEmpty">>
              /\ message_shown(Self)
              /\ ~renaming_word_table_active

\* C26: in every state every word of a table has as its group field the name
\* of the group that holds the table, also after a group has got a new name.
C26_WordsCarryTheirGroup ==
    \A g \in get_groups(flash_memory) :
        \A i \in DOMAIN flash_memory.groups[g] :
            \A k \in DOMAIN flash_memory.groups[g][i].words :
                flash_memory.groups[g][i].words[k].group = g

\* ------------------------------------ the properties of the editor's text
\* the english and the chinese form of every word, in order
Pairs(words) == [i \in DOMAIN words |-> <<words[i].english, words[i].chinese>>]

\* C32: a save of the editor that finds the text the menu fills in for the
\* table, whose words editor saves have stored, leaves the table with the
\* same english and chinese forms in the same order.
C32_RefillIsIdentity ==
    (event = "editor_save" /\ IsSome(prev.editing_word_table)) =>
        LET group == Unwrap(prev.editing_word_table)[1]
            table_name == Unwrap(prev.editing_word_table)[2]
        IN prev.word_table_content = Prefill(prev, group, table_name)
               => Pairs(TableWords(flash_memory, group, table_name))
                      = Pairs(TableWords(prev.flash_memory, group, table_name))

\* the table of two words, one with a space in its chinese form, has been
\* saved again from the text the editor opened with
C32_Witness ==
    /\ event = "editor_save"
    /\ IsSome(prev.editing_word_table)
    /\ prev.word_table_content
           = Prefill(prev, Unwrap(prev.editing_word_table)[1], Unwrap(prev.editing_word_table)[2])
    /\ message = <<"MsgSaved", ToString(2)>>
    /\ \E i \in DOMAIN TableWords(flash_memory, NewGroupBase, NewTableBase) :
           Find(TableWords(flash_memory, NewGroupBase, NewTableBase)[i].chinese, " ") # 0

\* C33: a save of the editor whose text gives no word leaves the store as it
\* was, writes no file, leaves the editor open on the same table and sets a
\* message, which the panel shows; and no save of the editor leaves without
\* words a table that had some.
C33_ZeroWordsRejected ==
    (event = "editor_save" /\ IsSome(prev.editing_word_table)) =>
        LET group == Unwrap(prev.editing_word_table)[1]
            table_name == Unwrap(prev.editing_word_table)[2]
        IN /\ WordLines(FirstLines(Lines(prev.word_table_content))) = <<>>
                  => /\ flash_memory = prev.flash_memory
                     /\ store_result = "none"
                     /\ save_result = "none"
                     /\ editing_word_table = prev.editing_word_table
                     /\ message = <<"MsgNoValidWords">>
                     /\ message_shown(Self)
           /\ TableWords(prev.flash_memory, group, table_name) # <<>>
                  => TableWords(flash_memory, group, table_name) # <<>>
====
